---- MODULE Spec2Model ----
(***************************************************************************)
(* A model of web-auto (src/main.py): main() reads urls.txt, asks for the  *)
(* number of instances, launches one shared browser and starts one         *)
(* runner_task per InstanceState; every runner loops over run_once passes. *)
(* Text is modelled as a sequence of one-character strings.                *)
(***************************************************************************)
EXTENDS Integers, Sequences, FiniteSets, TLC

\* ------------------------------------------------------------------ bounds
\* Longest urls.txt text and longest prompt input drawn by InitStartup.
MaxFileLen == 2
MaxInputLen == 2
\* Passes all runners together start in one run of the model.
MaxPasses == 2
\* Largest number of scroll sessions drawn for one page (the code draws 8..20
\* on the first page and 5..12 on the new page; the model draws 1..MaxSessions).
MaxSessions == 1
\* The clock is read as one of the instants 0, ClockUnit, ..., MaxClock * ClockUnit
\* (seconds since the reading of a page began).
ClockUnit == 10
MaxClock == 3
\* The pages whose scroll positions are followed are PageHeightUnit, ...,
\* MaxPageHeight * PageHeightUnit pixels high.
PageHeightUnit == 300
MaxPageHeight == 3
\* hard_click is given 1..MaxSelectors selectors, and its clock is read as one
\* of the instants 0, ClickClockUnit, ..., MaxClickClock * ClickClockUnit (seconds
\* since the call); one awaited call takes no time or one unit.
MaxSelectors == 2
ClickClockUnit == 8
MaxClickClock == 9

\* --------------------------------------------------------- program constants
\* str(e)[:100] in runner_task.
DetailLimit == 100
\* "if n < 1 or n > 50" in main.
MinInstances == 1
MaxInstanceCount == 50
\* INSTANCES = 3 at module level, INSTANCES = 1 in the fallback.
DefaultInstances == 3
FallbackInstances == 1
\* asyncio.sleep(1) after a successful pass, asyncio.sleep(2.0) after a failed
\* one, asyncio.sleep(state.id * 0.5) before the first; in milliseconds.
SuccessDelayMs == 1000
ErrorDelayMs == 2000
StaggerMs == 500
\* random.uniform(20.0, 30.0): the ends of the range, in seconds.
LinkClickMin == 20
LinkClickMax == 30
\* random.uniform(20.0, 30.0), the reading time of a short page: the ends.
ShortReadMin == 20
ShortReadMax == 30
\* MAX_FIND_SEC = 60, the seconds hard_click polls for.
MAX_FIND_SEC == 60

\* -------------------------------------------------------------------- text
NL == "\n"
Whitespace == {" ", NL}
Digits == {"0", "1", "2", "3", "4", "5", "6", "7", "8", "9"}
DigitVal(c) ==
    CASE c = "0" -> 0 [] c = "1" -> 1 [] c = "2" -> 2 [] c = "3" -> 3
      [] c = "4" -> 4 [] c = "5" -> 5 [] c = "6" -> 6 [] c = "7" -> 7
      [] c = "8" -> 8 [] c = "9" -> 9

\* All texts over alphabet A of length at most n.
TextsUpTo(A, n) == UNION {[1..k -> A] : k \in 0..n}

Min(a, b) == IF a < b THEN a ELSE b

\* s[:n]
Truncate(s, n) == SubSeq(s, 1, Min(Len(s), n))

RECURSIVE LStrip(_)
LStrip(s) ==
    IF s # <<>> /\ Head(s) \in Whitespace THEN LStrip(Tail(s)) ELSE s

RECURSIVE RStrip(_)
RStrip(s) ==
    IF s # <<>> /\ s[Len(s)] \in Whitespace
    THEN RStrip(SubSeq(s, 1, Len(s) - 1))
    ELSE s

\* str.strip()
Strip(s) == RStrip(LStrip(s))

\* str.splitlines(): the text cut at every line break, no empty last line.
RECURSIVE SplitLines(_)
SplitLines(t) ==
    IF t = <<>> THEN <<>>
    ELSE LET brk == {k \in 1..Len(t) : t[k] = NL}
         IN  IF brk = {} THEN <<t>>
             ELSE LET k == CHOOSE j \in brk : \A m \in brk : j <= m
                  IN  <<SubSeq(t, 1, k - 1)>> \o SplitLines(SubSeq(t, k + 1, Len(t)))

\* StripNonBlank that keeps the blank lines: [ln.strip() for ln in lines].
RECURSIVE StripAll(_)
StripAll(lines) ==
    IF lines = <<>> THEN <<>> ELSE <<Strip(Head(lines))>> \o StripAll(Tail(lines))

\* [ln.strip() for ln in lines if ln.strip()]
RECURSIVE StripNonBlank(_)
StripNonBlank(lines) ==
    IF lines = <<>> THEN <<>>
    ELSE LET ln == Strip(Head(lines))
         IN  (IF ln # <<>> THEN <<ln>> ELSE <<>>) \o StripNonBlank(Tail(lines))

\* The digits of an int() literal: digits, single underscores only between two.
ValidDigits(b) ==
    /\ b # <<>>
    /\ \A k \in 1..Len(b) :
          \/ b[k] \in Digits
          \/ /\ b[k] = "_"
             /\ 1 < k /\ k < Len(b)
             /\ b[k - 1] \in Digits /\ b[k + 1] \in Digits

RECURSIVE DigitsValue(_, _)
DigitsValue(b, acc) ==
    IF b = <<>> THEN acc
    ELSE IF Head(b) = "_" THEN DigitsValue(Tail(b), acc)
    ELSE DigitsValue(Tail(b), 10 * acc + DigitVal(Head(b)))

\* int(user_in.strip()): [ok, val]; ok is FALSE where int() raises ValueError.
ParseInt(s) ==
    LET t == Strip(s)
        signed == t # <<>> /\ Head(t) \in {"-", "+"}
        body == IF signed THEN Tail(t) ELSE t
    IN  IF ValidDigits(body)
        THEN [ok |-> TRUE,
              val |-> IF signed /\ Head(t) = "-"
                      THEN 0 - DigitsValue(body, 0)
                      ELSE DigitsValue(body, 0)]
        ELSE [ok |-> FALSE, val |-> 0]

\* ------------------------------------------------------------------- state
VARIABLES
    url_file,     \* urls.txt: [exists, text at startup, later: its text afterwards]
    user_in,      \* what console.input yields: [eof, text]
    mpc,          \* where main() is
    urls_list,    \* main's urls_list
    INSTANCES,    \* the module global INSTANCES
    states,       \* main's states: the InstanceState of every runner
    total_done,   \* main's total_done
    browser,      \* main's browser: "None" or "launched"
    console_out,  \* main's prompt and the errors it printed, in order
    exited,       \* the process has ended
    exit_code,    \* its exit status once exited
    pc,           \* where every runner task is (empty before the tasks exist)
    frame,        \* every runner's locals of runner_task and run_once
    cancel_req,   \* the runner tasks whose cancel() was called and not yet delivered
    rand,         \* what the random module yields to one call of random_profile
    fp,           \* the profile that call returned, in a sequence (empty before it)
    loop,         \* one scroll loop with its positions: the locals it reads and writes
    hc            \* one call of hard_click: its arguments, its locals and how it ended

vars == <<url_file, user_in, mpc, urls_list, INSTANCES, states, total_done,
          browser, console_out, exited, exit_code, pc, frame, cancel_req, rand, fp,
          loop, hc>>

mainVars == <<mpc, urls_list, INSTANCES, total_done, browser, console_out,
              exited, exit_code>>
profileVars == <<rand, fp>>
\* What no step of main and no step of a runner task writes.
inputVars == <<url_file, user_in, profileVars, loop, hc>>

\* InstanceState(id=i): the dataclass defaults (started_at and last_duration,
\* which nothing reads, are left out).
InstanceState(i) ==
    [id |-> i, runs |-> 0, successes |-> 0, failures |-> 0,
     current_step |-> "idle", last_url |-> <<>>, last_detail |-> <<>>,
     status |-> "idle"]

\* ------------------------------------------------------------------ inputs
FileAlphabet == {NL, " ", "a"}
InputAlphabet == {" ", "-", "+", "_", "0", "1", "5", "a"}

StartupFiles ==
    {[exists |-> FALSE, text |-> <<>>, later |-> <<>>]}
        \cup {[exists |-> TRUE, text |-> t, later |-> t] :
                 t \in TextsUpTo(FileAlphabet, MaxFileLen)}
StartupInputs ==
    {[eof |-> TRUE, text |-> <<>>]}
        \cup {[eof |-> FALSE, text |-> t] : t \in TextsUpTo(InputAlphabet, MaxInputLen)}

StartupSetups == {[file |-> f, input |-> u] : f \in StartupFiles, u \in StartupInputs}

\* The setups of the runs that are followed past the startup: a missing and a
\* blank file, two URLs read by one runner (the prompt's answer is out of range),
\* and one URL read by two runners.
RunSetups ==
    {[file |-> [exists |-> FALSE, text |-> <<>>, later |-> <<>>],
      input |-> [eof |-> TRUE, text |-> <<>>]],
     [file |-> [exists |-> TRUE, text |-> <<" ", NL>>, later |-> <<" ", NL>>],
      input |-> [eof |-> TRUE, text |-> <<>>]],
     [file |-> [exists |-> TRUE, text |-> <<"a", NL, " ", "b", NL>>,
                later |-> <<"c", " ", NL>>],
      input |-> [eof |-> FALSE, text |-> <<"5", "1">>]],
     [file |-> [exists |-> TRUE, text |-> <<"a", NL>>, later |-> <<"a", NL, "c">>],
      input |-> [eof |-> FALSE, text |-> <<"2">>]]}

\* ------------------------------------------- fingerprints.py: random_profile
DeviceProfile(ua, vp, dsf, mobile, touch, plat, mem, cores, touch_points) ==
    [user_agent |-> ua, viewport |-> vp, device_scale_factor |-> dsf,
     is_mobile |-> mobile, has_touch |-> touch, platform |-> plat,
     device_memory |-> mem, hardware_concurrency |-> cores,
     max_touch_points |-> touch_points]

\* The first entries of the three tables; the user agents are shortened and the
\* scale factors are in hundredths.
DESKTOP_PROFILES ==
    <<DeviceProfile("Windows NT 10.0 Chrome/127", [width |-> 1920, height |-> 1080],
                    100, FALSE, FALSE, "Win32", 8, 8, 0),
      DeviceProfile("Windows NT 10.0 Chrome/126", [width |-> 1366, height |-> 768],
                    100, FALSE, FALSE, "Win32", 4, 4, 0),
      DeviceProfile("Windows NT 10.0 Chrome/125", [width |-> 1440, height |-> 900],
                    100, FALSE, FALSE, "Win32", 8, 6, 0)>>
MOBILE_PROFILES ==
    <<DeviceProfile("iPhone OS 17_6 Version/17.6", [width |-> 390, height |-> 844],
                    300, TRUE, TRUE, "iPhone", 6, 6, 5),
      DeviceProfile("iPhone OS 17_5 Version/17.5", [width |-> 428, height |-> 926],
                    300, TRUE, TRUE, "iPhone", 8, 6, 5)>>
TABLET_PROFILES ==
    <<DeviceProfile("iPad OS 17_6 Version/17.6", [width |-> 1024, height |-> 1366],
                    200, TRUE, TRUE, "MacIntel", 16, 8, 5),
      DeviceProfile("iPad OS 16_7 Version/16.6", [width |-> 1024, height |-> 1366],
                    200, TRUE, TRUE, "MacIntel", 16, 8, 5)>>
LOCALE_TZS ==
    <<<<"en-US", "America/New_York">>, <<"en-US", "America/Los_Angeles">>>>

\* The table random.choice draws the device from.
ProfilesOf(device_type) ==
    IF device_type = "desktop" THEN DESKTOP_PROFILES
    ELSE IF device_type = "mobile" THEN MOBILE_PROFILES
    ELSE TABLET_PROFILES

\* The outcomes of the random draws of one call: random.choices over the device
\* types (every weight is positive), random.choice over the table of that type,
\* over LOCALE_TZS, over the colour schemes and over the motion settings.
Draws ==
    UNION {{[device_type |-> t, device |-> k, locale_tz |-> l,
             color_scheme |-> c, reduced_motion |-> m] :
               k \in 1..Len(ProfilesOf(t)), l \in 1..Len(LOCALE_TZS),
               c \in {"light", "dark", "no-preference"},
               m \in {"no-preference", "reduce"}} :
           t \in {"desktop", "mobile", "tablet"}}
NoDraw == CHOOSE r \in Draws : TRUE

\* random_profile with the platform of the first desktop entry.
random_profile_desktop_platform(r) ==
    LET device == ProfilesOf(r.device_type)[r.device]
        locale_tz == LOCALE_TZS[r.locale_tz]
    IN  [user_agent |-> device.user_agent,
         viewport |-> device.viewport,
         device_scale_factor |-> device.device_scale_factor,
         is_mobile |-> device.is_mobile,
         has_touch |-> device.has_touch,
         platform |-> DESKTOP_PROFILES[1].platform,
         device_memory |-> device.device_memory,
         hardware_concurrency |-> device.hardware_concurrency,
         max_touch_points |-> device.max_touch_points,
         locale |-> locale_tz[1],
         timezone |-> locale_tz[2],
         timezone_id |-> locale_tz[2],
         color_scheme |-> r.color_scheme,
         reduced_motion |-> r.reduced_motion]

\* random_profile(): the fields of the dictionary that are copied from the
\* drawn device and from the drawn locale (the generated headers, fingerprints
\* and scripts, which are computed from these, are left out).
random_profile(r) ==
    LET device == ProfilesOf(r.device_type)[r.device]
        locale_tz == LOCALE_TZS[r.locale_tz]
    IN  [user_agent |-> device.user_agent,
         viewport |-> device.viewport,
         device_scale_factor |-> device.device_scale_factor,
         is_mobile |-> device.is_mobile,
         has_touch |-> device.has_touch,
         platform |-> device.platform,
         device_memory |-> device.device_memory,
         hardware_concurrency |-> device.hardware_concurrency,
         max_touch_points |-> device.max_touch_points,
         locale |-> locale_tz[1],
         timezone |-> locale_tz[2],
         timezone_id |-> locale_tz[2],
         color_scheme |-> r.color_scheme,
         reduced_motion |-> r.reduced_motion]

\* The program's state where main starts, before urls.txt is read.
InitMain(file, input) ==
    /\ url_file = file /\ user_in = input
    /\ mpc = "read_urls"
    /\ urls_list = <<>>
    /\ INSTANCES = DefaultInstances
    /\ states = <<>>
    /\ total_done = 0
    /\ browser = "None"
    /\ console_out = <<>>
    /\ exited = FALSE
    /\ exit_code = 0
    /\ pc = <<>>
    /\ frame = <<>>
    /\ cancel_req = {}

\* ------------------------------------------------------ main.py: hard_click
\* One specification follows one call of hard_click from its first reading of
\* the clock to its return or its raise.
SelectorCounts == 1..MaxSelectors
ClickInstants == {k * ClickClockUnit : k \in 0..MaxClickClock}
\* The clock after one awaited call that begins at now.
Elapse(now) == {t \in ClickInstants : t >= now /\ t <= now + ClickClockUnit}

\* The click strategies of hard_click.
Strategies ==
    {"click_forced", "click_unforced", "dblclick", "mouse", "page_click",
     "script_click"}

\* "selectors = [selector] + (many_selectors or [])", "deadline = time.time() +
\* MAX_FIND_SEC", "last_err = None"; tried lists the strategies run on the
\* element found last, each with whether it completed without raising.
HardClickStart(selectors, double) ==
    [selectors |-> selectors, double |-> double, now |-> 0,
     deadline |-> 0 + MAX_FIND_SEC, last_err |-> <<>>, sel |-> 0,
     at |-> "while", tried |-> <<>>, outcome |-> "running", raised |-> <<>>]

NoClick == [HardClickStart(0, FALSE) EXCEPT !.at = "done", !.outcome = "none"]

RaiseRuntimeError(last_err) == <<"RuntimeError">>
\* "raise last_err or RuntimeError(...)"
RaiseLast(last_err) == IF last_err = <<>> THEN <<"RuntimeError">> ELSE last_err

\* Where hard_click goes on after the strategy at raised: the next strategy of
\* the same element, "for" for the next selector after the last one.
AfterFailure(at, double) ==
    CASE at = "click_forced" -> "click_unforced"
      [] at = "click_unforced" -> IF double THEN "dblclick" ELSE "bounding_box"
      [] at = "dblclick" -> "bounding_box"
      [] at = "mouse" -> "page_click"
      [] at = "page_click" -> "script_click"
      [] at = "script_click" -> "for"

clickOther ==
    <<url_file, user_in, profileVars, loop, mainVars, states, pc, frame,
      cancel_req>>

\* "while time.time() < deadline:" and, once it is false, the raise.
HardClickWhile ==
    /\ hc.at = "while"
    /\ hc' = IF hc.now < hc.deadline
             THEN [hc EXCEPT !.at = "for", !.sel = 1]
             ELSE [hc EXCEPT !.at = "done", !.outcome = "raised",
                             !.raised = RaiseLast(hc.last_err)]
    /\ UNCHANGED clickOther

\* "for sel in selectors:" and after the last selector the sleep of the round.
HardClickFor ==
    /\ hc.at = "for"
    /\ hc' = IF hc.sel <= hc.selectors
             THEN [hc EXCEPT !.at = "wait_for_selector", !.tried = <<>>]
             ELSE [hc EXCEPT !.at = "sleep"]
    /\ UNCHANGED clickOther

\* page.wait_for_selector: a visible element (scrolled into view, whose error
\* is passed), a false value ("continue"), PlaywrightTimeout or another error.
HardClickWaits ==
    /\ hc.at = "wait_for_selector"
    /\ \E t \in Elapse(hc.now) :
          \/ hc' = [hc EXCEPT !.now = t, !.at = "click_forced"]
          \/ hc' = [hc EXCEPT !.now = t, !.at = "for", !.sel = @ + 1]
          \/ \E e \in {"TimeoutError", "Error"} :
                hc' = [hc EXCEPT !.now = t, !.at = "sleep_except",
                                 !.last_err = <<e>>]
    /\ UNCHANGED clickOther

\* One strategy on the element: it completes and hard_click returns, or it
\* raises, the error is kept in last_err and the next one is tried.
HardClickTries ==
    /\ hc.at \in Strategies
    /\ \E t \in Elapse(hc.now), ok \in BOOLEAN :
          LET tried == Append(hc.tried, [by |-> hc.at, ok |-> ok])
              next == AfterFailure(hc.at, hc.double)
          IN  hc' = IF ok
                    THEN [hc EXCEPT !.now = t, !.tried = tried, !.at = "done",
                                    !.outcome = "returned"]
                    ELSE [hc EXCEPT !.now = t, !.tried = tried, !.at = next,
                                    !.last_err = <<hc.at>>,
                                    !.sel = IF next = "for" THEN @ + 1 ELSE @]
    /\ UNCHANGED clickOther

\* el.bounding_box(): a box, or None (also when it raises); "if box:".
HardClickBox ==
    /\ hc.at = "bounding_box"
    /\ \E t \in Elapse(hc.now), box \in BOOLEAN :
          hc' = [hc EXCEPT !.now = t,
                           !.at = IF box THEN "mouse" ELSE "page_click"]
    /\ UNCHANGED clickOther

\* asyncio.sleep(POLL_MS / 1000): in an except clause, followed by "continue",
\* and at the end of a round.
HardClickSleeps ==
    /\ hc.at \in {"sleep_except", "sleep"}
    /\ \E t \in Elapse(hc.now) :
          hc' = IF hc.at = "sleep"
                THEN [hc EXCEPT !.now = t, !.at = "while"]
                ELSE [hc EXCEPT !.now = t, !.at = "for", !.sel = @ + 1]
    /\ UNCHANGED clickOther

\* The task is cancelled while hard_click awaits: CancelledError is no
\* Exception, no except clause of hard_click takes it.
HardClickCancelled ==
    /\ hc.at \in Strategies \cup
                 {"wait_for_selector", "bounding_box", "sleep_except", "sleep"}
    /\ hc' = [hc EXCEPT !.at = "done", !.outcome = "cancelled"]
    /\ UNCHANGED clickOther

\* ---------------------------------- the scroll loops with their positions
\* One specification follows a scroll loop of run_once ("page") or of
\* read_new_page ("new_page") with the numbers it computes; lengths are in
\* pixels, the target percentage in percent.
LoopKinds == {"page", "new_page"}

\* random.randint(8, 20) and random.randint(5, 12): the ends of the ranges.
ScrollSessions(kind) == IF kind = "page" THEN {8, 20} ELSE {5, 12}

\* random.uniform(0.70, 1.0) and random.uniform(0.50, 0.90): the ends.
TargetPercents(kind) == IF kind = "page" THEN {70, 100} ELSE {50, 90}

\* scroll_amount * direction: the ends of the ranges of a normal scroll down, of
\* a small scroll up and (first page only) of a big jump down.
ScrollMoves(kind) ==
    IF kind = "page"
    THEN {100, 400, 0 - 50, 0 - 150, 300, 800}
    ELSE {150, 500, 0 - 50, 0 - 200}

\* document.body.scrollHeight of the pages followed (each above the viewport).
PageHeights == {k * PageHeightUnit : k \in 1..MaxPageHeight}

Max(a, b) == IF a > b THEN a ELSE b

\* NewPosition without the upper limit: max(0, current_position + move).
NewPositionUncapped(page_height, current_position, move) == Max(0, current_position + move)

\* max(0, min(page_height, current_position + (scroll_amount * direction)))
NewPosition(page_height, current_position, move) ==
    Max(0, Min(page_height, current_position + move))

\* The locals where the loop begins: current_position = 0, the first session.
\* scrolls counts the window.scrollTo calls issued.
LoopStart(kind, page_height, percent, sessions) ==
    [kind |-> kind, page_height |-> page_height,
     target_scroll_position |-> (page_height * percent) \div 100,
     scroll_sessions |-> sessions, session |-> 0, current_position |-> 0,
     at |-> "head", scrolls |-> 0]

NoLoop == LoopStart("page", 0, 0, 0)

\* "for session in range(scroll_sessions)" ends, or "break" at the target.
LoopEnds ==
    /\ loop.at = "head"
    /\ \/ loop.session >= loop.scroll_sessions
       \/ loop.current_position >= loop.target_scroll_position
    /\ loop' = [loop EXCEPT !.at = "done"]
    /\ UNCHANGED <<url_file, user_in, profileVars, mainVars, states, pc, frame,
                   cancel_req, hc>>

\* One more session: the new position is computed and scrolled to.
LoopScrolls ==
    /\ loop.at = "head"
    /\ loop.session < loop.scroll_sessions
    /\ loop.current_position < loop.target_scroll_position
    /\ \E move \in ScrollMoves(loop.kind) :
          loop' = [loop EXCEPT !.current_position =
                                   NewPosition(loop.page_height, @, move),
                               !.scrolls = @ + 1,
                               !.at = "sleep"]
    /\ UNCHANGED <<url_file, user_in, profileVars, mainVars, states, pc, frame,
                   cancel_req, hc>>

\* The reading time of the session ends: the next session, or on the first page
\* the "break" after a link was clicked and the new page read.
LoopSleeps ==
    /\ loop.at = "sleep"
    /\ \/ loop' = [loop EXCEPT !.session = @ + 1, !.at = "head"]
       \/ /\ loop.kind = "page"
          /\ loop' = [loop EXCEPT !.at = "done"]
    /\ UNCHANGED <<url_file, user_in, profileVars, mainVars, states, pc, frame,
                   cancel_req, hc>>

InitScroll ==
    /\ InitMain([exists |-> FALSE, text |-> <<>>, later |-> <<>>],
                [eof |-> TRUE, text |-> <<>>])
    /\ rand = NoDraw
    /\ fp = <<>>
    /\ \E kind \in LoopKinds, h \in PageHeights :
          \E percent \in TargetPercents(kind), n \in ScrollSessions(kind) :
             loop = LoopStart(kind, h, percent, n)
    /\ hc = NoClick
NextScroll == LoopEnds \/ LoopScrolls \/ LoopSleeps
SpecScroll == InitScroll /\ [][NextScroll]_vars

\* One call of hard_click, for every number of selectors and either "double".
InitHardClick ==
    /\ InitMain([exists |-> FALSE, text |-> <<>>, later |-> <<>>],
                [eof |-> TRUE, text |-> <<>>])
    /\ rand = NoDraw
    /\ fp = <<>>
    /\ loop = NoLoop
    /\ \E selectors \in SelectorCounts, double \in BOOLEAN :
          hc = HardClickStart(selectors, double)
NextHardClick ==
    \/ HardClickWhile
    \/ HardClickFor
    \/ HardClickWaits
    \/ HardClickTries
    \/ HardClickBox
    \/ HardClickSleeps
    \/ HardClickCancelled
SpecHardClick == InitHardClick /\ [][NextHardClick]_vars

\* ------------------------------------------- fingerprints.py run as a script
\* "profile = random_profile()" of fingerprints.py run as a script.
CallRandomProfile ==
    /\ fp = <<>>
    /\ fp' = <<random_profile(rand)>>
    /\ UNCHANGED <<url_file, user_in, rand, loop, hc, mainVars, states, pc, frame,
                   cancel_req>>

\* One call of random_profile, for every outcome of its draws.
InitProfile ==
    /\ InitMain([exists |-> FALSE, text |-> <<>>, later |-> <<>>],
                [eof |-> TRUE, text |-> <<>>])
    /\ rand \in Draws
    /\ fp = <<>>
    /\ loop = NoLoop
    /\ hc = NoClick
NextProfile == CallRandomProfile
SpecProfile == InitProfile /\ [][NextProfile]_vars

InitWith(setups) ==
    /\ \E su \in setups : InitMain(su.file, su.input)
    /\ rand = NoDraw
    /\ fp = <<>>
    /\ loop = NoLoop
    /\ hc = NoClick

Init == InitWith(RunSetups)
InitStartup == InitWith(StartupSetups)

\* -------------------------------------------------------------- main: startup
\* sys.exit(1), or an exception leaving main(): asyncio.run re-raises it and the
\* interpreter ends with status 1.
\* ExitWithError with sys.exit(): the status is 0.
ExitWithStatusZero(msg) ==
    /\ console_out' = Append(console_out, msg)
    /\ exited' = TRUE
    /\ exit_code' = 0
    /\ mpc' = "exited"

ExitWithError(msg) ==
    /\ console_out' = Append(console_out, msg)
    /\ exited' = TRUE
    /\ exit_code' = 1
    /\ mpc' = "exited"

\* main, the URL file: read, split, stripped, blank lines dropped.
ReadUrls ==
    /\ mpc = "read_urls"
    /\ IF ~url_file.exists
       THEN /\ ExitWithError("Failed to read URL file")
            /\ UNCHANGED urls_list
       ELSE LET lines == StripNonBlank(SplitLines(url_file.text))
            IN  /\ urls_list' = lines
                /\ IF lines = <<>>
                   THEN ExitWithError("No URLs found in the file")
                   ELSE /\ mpc' = "prompt"
                        /\ UNCHANGED <<console_out, exited, exit_code>>
    /\ UNCHANGED <<inputVars, INSTANCES, states, total_done, browser, pc, frame,
                   cancel_req>>

\* InstanceCount with the upper limit itself refused ("n >= 50").
InstanceCountBelowLimit(inp) ==
    IF inp.eof THEN FallbackInstances
    ELSE LET n == ParseInt(inp.text)
         IN  IF ~n.ok \/ n.val < MinInstances \/ n.val >= MaxInstanceCount
             THEN FallbackInstances
             ELSE n.val

\* The instance count main takes from the prompt's answer.
InstanceCount(inp) ==
    IF inp.eof THEN FallbackInstances
    ELSE LET n == ParseInt(inp.text)
         IN  IF ~n.ok \/ n.val < MinInstances \/ n.val > MaxInstanceCount
             THEN FallbackInstances
             ELSE n.val

\* main, the prompt and the InstanceState list.
AskInstances ==
    /\ mpc = "prompt"
    /\ console_out' = Append(console_out, "How many instances to run (1-50)?")
    /\ INSTANCES' = InstanceCount(user_in)
    /\ states' = [i \in 1..INSTANCES' |-> InstanceState(i)]
    /\ total_done' = 0
    /\ browser' = "None"
    /\ mpc' = "playwright"
    /\ UNCHANGED <<inputVars, urls_list, exited, exit_code, pc, frame, cancel_req>>

\* async with async_playwright() as p: the driver starts, or main ends with the error.
StartPlaywright ==
    /\ mpc = "playwright"
    /\ \/ /\ mpc' = "launch"
          /\ UNCHANGED <<console_out, exited, exit_code>>
       \/ ExitWithError("Traceback")
    /\ UNCHANGED <<inputVars, urls_list, INSTANCES, states, total_done, browser,
                   pc, frame, cancel_req>>

\* The first p.chromium.launch: on an error the browsers are installed and the
\* launch is tried once more.
LaunchBrowser ==
    /\ mpc = "launch"
    /\ \/ /\ browser' = "launched"
          /\ mpc' = "start_runners"
       \/ /\ mpc' = "relaunch"
          /\ UNCHANGED browser
    /\ UNCHANGED <<inputVars, urls_list, INSTANCES, states, total_done, console_out,
                   exited, exit_code, pc, frame, cancel_req>>

\* RelaunchBrowser going on to the runners when the second launch failed too.
RelaunchIgnoresFailure ==
    /\ mpc = "relaunch"
    /\ \/ browser' = "launched"
       \/ UNCHANGED browser
    /\ mpc' = "start_runners"
    /\ UNCHANGED <<inputVars, urls_list, INSTANCES, states, total_done, pc, frame,
                   cancel_req, console_out, exited, exit_code>>

\* The second p.chromium.launch, inside the except block: its error leaves main.
RelaunchBrowser ==
    /\ mpc = "relaunch"
    /\ \/ /\ browser' = "launched"
          /\ mpc' = "start_runners"
          /\ UNCHANGED <<console_out, exited, exit_code>>
       \/ /\ ExitWithError("Traceback")
          /\ UNCHANGED browser
    /\ UNCHANGED <<inputVars, urls_list, INSTANCES, states, total_done, pc, frame,
                   cancel_req>>

\* No exception, an exception with its text and the call that raised it (its
\* traceback), a task cancellation.
NoError == [kind |-> "none", text |-> <<>>, at |-> "none"]
Error(text, at) == [kind |-> "error", text |-> text, at |-> at]
CancelledError == [kind |-> "cancelled", text |-> <<>>, at |-> "none"]

\* A runner's locals before its first pass: url, results (here: returned) and e
\* of runner_task, the others of run_once (browser is its parameter) and of the
\* functions it calls.
\* at_target and np_at_target stand for current_position >= target_scroll_position.
\* Times are in seconds since start_reading_time: now is the latest reading of
\* time.time(), link_click_time the time drawn for the link search.
\* Four fields record what happened: raised_by names the call that raised in the
\* runner's latest step ("none" when none did), consecutive_failures counts the
\* failed passes in a row, passes the passes started, searches the calls of
\* query_selector_all in the pass; delay_ms is the length of the sleep
\* runner_task is in, or of the reading time of a short page.
InitialFrame ==
    [url |-> <<>>, browser |-> "None", context |-> "None", results |-> <<>>, pending |-> NoError,
     e |-> NoError, wfl_caller |-> "none", page_long |-> FALSE,
     link_clicked |-> FALSE, session |-> 0, scroll_sessions |-> 0,
     at_target |-> FALSE, np_session |-> 0, np_scroll_sessions |-> 0,
     np_at_target |-> FALSE, returned |-> <<>>, delay_ms |-> 0,
     now |-> 0, link_click_time |-> 0, searches |-> 0,
     raised_by |-> "none", consecutive_failures |-> 0, passes |-> 0]

\* run_once has ended: its locals are gone. What stays are runner_task's locals
\* (url), the state the pass left its context in, and the records.
AfterRunOnce(f) ==
    [InitialFrame EXCEPT !.url = f.url, !.context = f.context,
                         !.consecutive_failures = f.consecutive_failures,
                         !.passes = f.passes]

\* StartRunners with the delays in the reverse order of the ids.
StartRunnersReversed ==
    /\ mpc = "start_runners"
    /\ pc' = [i \in 1..Len(states) |-> "stagger"]
    /\ frame' = [i \in 1..Len(states) |->
                    [InitialFrame EXCEPT
                        !.delay_ms = (Len(states) + 1 - states[i].id) * StaggerMs]]
    /\ mpc' = "dashboard"
    /\ UNCHANGED <<inputVars, urls_list, INSTANCES, states, total_done, browser,
                   console_out, exited, exit_code, cancel_req>>

\* runners = [asyncio.create_task(runner_task(s)) for s in states]; every task
\* starts in its asyncio.sleep(state.id * 0.5).
StartRunners ==
    /\ mpc = "start_runners"
    /\ pc' = [i \in 1..Len(states) |-> "stagger"]
    /\ frame' = [i \in 1..Len(states) |->
                    [InitialFrame EXCEPT !.delay_ms = states[i].id * StaggerMs]]
    /\ mpc' = "dashboard"
    /\ UNCHANGED <<inputVars, urls_list, INSTANCES, states, total_done, browser,
                   console_out, exited, exit_code, cancel_req>>

NextStartup ==
    \/ ReadUrls
    \/ AskInstances
    \/ StartPlaywright
    \/ LaunchBrowser
    \/ RelaunchBrowser
    \/ StartRunners

SpecStartup == InitStartup /\ [][NextStartup]_vars

\* ------------------------------------------------------ runner: one pass ends
\* The detail of the "Done" step (the elapsed time, formatted) and the details
\* of the other steps, shortened.
ElapsedDetail == <<"E", "l", "a", "p", "s", "e", "d">>
FixedDetail == <<"O", "K">>
NoLinksDetail == <<"n", "o", " ", "l", "i", "n", "k", "s">>
PartialPrefix == <<"E", "r", "r", ":">>
\* str(e)[:50] in read_new_page.
PartialLimit == 50
\* s.last_url[:40] in make_dashboard.
UrlCellLimit == 40

StepResult(step, status, detail) == [step |-> step, status |-> status, detail |-> detail]

\* The texts of the exceptions the browser library raises: a short one and one
\* longer than the detail column keeps.
ShortError == [k \in 1..3 |-> "x"]
LongError == [k \in 1..(DetailLimit + 1) |-> IF k <= DetailLimit THEN "x" ELSE "y"]
ErrorTexts == {ShortError, LongError}

\* What a step of a runner leaves: its next position, its locals, its
\* InstanceState, and what it adds to total_done.
Out(p, f, s) ==
    [pc |-> p, frame |-> [f EXCEPT !.raised_by = "none"], state |-> s, done |-> 0]

\* The same, in a step in which the call `op` raised.
Raised(out, op) == [out EXCEPT !.frame.raised_by = op]

\* PassSucceeded with the pass counted in runs only.
PassSucceededRunsOnly(f, s) ==
    [pc |-> "sleep_ok",
     frame |-> [AfterRunOnce(f) EXCEPT !.returned = f.results,
                                       !.delay_ms = SuccessDelayMs,
                                       !.consecutive_failures = 0],
     state |-> [s EXCEPT !.runs = @ + 1,
                         !.last_detail = IF f.results # <<>>
                                         THEN f.results[Len(f.results)].detail
                                         ELSE <<>>,
                         !.status = "idle", !.current_step = "sleep 1s"],
     done |-> 1]

\* runner_task after run_once returned: the pass is counted as a success and the
\* runner sleeps 1 s.
PassSucceeded(f, s) ==
    [pc |-> "sleep_ok",
     frame |-> [AfterRunOnce(f) EXCEPT !.returned = f.results,
                                       !.delay_ms = SuccessDelayMs,
                                       !.consecutive_failures = 0],
     state |-> [s EXCEPT !.runs = @ + 1, !.successes = @ + 1,
                         !.last_detail = IF f.results # <<>>
                                         THEN f.results[Len(f.results)].detail
                                         ELSE <<>>,
                         !.status = "idle", !.current_step = "sleep 1s"],
     done |-> 1]

\* PassFailed with the whole error text kept as the detail.
PassFailedFullDetail(f, s, err) ==
    [pc |-> "sleep_err",
     frame |-> [AfterRunOnce(f) EXCEPT !.e = err, !.delay_ms = ErrorDelayMs,
                                       !.consecutive_failures = @ + 1],
     state |-> [s EXCEPT !.runs = @ + 1, !.failures = @ + 1,
                         !.status = "error/restarting",
                         !.last_detail = err.text,
                         !.current_step = "error recovery"],
     done |-> 0]

\* PassFailed with a delay that grows with the failures in a row.
PassFailedBackoff(f, s, err) ==
    [pc |-> "sleep_err",
     frame |-> [AfterRunOnce(f) EXCEPT !.e = err,
                                       !.delay_ms = ErrorDelayMs * (f.consecutive_failures + 1),
                                       !.consecutive_failures = @ + 1],
     state |-> [s EXCEPT !.runs = @ + 1, !.failures = @ + 1,
                         !.status = "error/restarting",
                         !.last_detail = Truncate(err.text, DetailLimit),
                         !.current_step = "error recovery"],
     done |-> 0]

\* runner_task's "except Exception as e": the pass is counted as a failure and
\* the runner sleeps 2 s.
PassFailed(f, s, err) ==
    [pc |-> "sleep_err",
     frame |-> [AfterRunOnce(f) EXCEPT !.e = err, !.delay_ms = ErrorDelayMs,
                                       !.consecutive_failures = @ + 1],
     state |-> [s EXCEPT !.runs = @ + 1, !.failures = @ + 1,
                         !.status = "error/restarting",
                         !.last_detail = Truncate(err.text, DetailLimit),
                         !.current_step = "error recovery"],
     done |-> 0]

\* CancelledError is no Exception: it leaves runner_task and the task ends.
TaskCancelled(f, s) == Out("cancelled", AfterRunOnce(f), s)

\* LeaveRunOnce with "Done" appended to a list the caller does not receive.
LeaveRunOnceReturnsCopy(f, s) ==
    CASE f.pending.kind = "none" -> PassSucceeded(f, s)
      [] f.pending.kind = "error" -> PassFailed(f, s, f.pending)
      [] f.pending.kind = "cancelled" -> TaskCancelled(f, s)

\* The end of run_once's finally block: "Done" is appended, then the function
\* returns or the pending exception goes on to runner_task.
LeaveRunOnce(f, s) ==
    LET g == [f EXCEPT !.results = Append(@, StepResult("Done", "OK", ElapsedDetail))]
    IN  CASE f.pending.kind = "none" -> PassSucceeded(g, s)
          [] f.pending.kind = "error" -> PassFailed(g, s, f.pending)
          [] f.pending.kind = "cancelled" -> TaskCancelled(g, s)

\* Finally without the close: run_once is left with its context open.
FinallyWithoutClose(f, s, how) == LeaveRunOnce([f EXCEPT !.pending = how], s)

\* run_once's finally block is entered, returning (how = NoError) or with an
\* exception: a context that was opened is closed first.
Finally(f, s, how) ==
    IF f.context = "None"
    THEN LeaveRunOnce([f EXCEPT !.pending = how], s)
    ELSE Out("close", [f EXCEPT !.pending = how, !.context = "closing"], s)

\* RunOnceRaises with a try block that takes the exception: run_once returns.
RunOnceSwallows(f, s, err) == Raised(Finally(f, s, NoError), err.at)

\* An exception raised in run_once outside its inner try blocks.
RunOnceRaises(f, s, err) == Raised(Finally(f, s, err), err.at)

\* ------------------------------------------------- runner: inside one pass
\* wait_for_load(page) is called.
CallWaitForLoad(f, s, caller) == Out("wfl_dom", [f EXCEPT !.wfl_caller = caller], s)

\* wait_for_load returns to run_once after goto, to run_once after the click
\* (which calls read_new_page, which calls wait_for_load), or to read_new_page.
WaitForLoadReturns(f, s) ==
    CASE f.wfl_caller = "open" ->
            Out("initial_wait", f, [s EXCEPT !.current_step = "initial load wait"])
      [] f.wfl_caller = "click" -> CallWaitForLoad(f, s, "new_page")
      [] f.wfl_caller = "new_page" ->
            Out("np_pause", f, [s EXCEPT !.current_step = "processing new page"])

\* DomWaitRaised with one try block around both waits: the second is skipped.
DomWaitRaisedSkipsIdle(f, s) == Raised(WaitForLoadReturns(f, s), "wait_dom")

\* wait_for_load's first "except Exception: pass": the second wait comes next.
DomWaitRaised(f, s) == Raised(Out("wfl_idle", f, s), "wait_dom")

\* IdleWaitRaised without its try block: the exception leaves run_once.
IdleWaitPropagates(f, s) == RunOnceRaises(f, s, Error(ShortError, "wait_idle"))

\* wait_for_load's second "except Exception: pass": wait_for_load returns.
IdleWaitRaised(f, s) == Raised(WaitForLoadReturns(f, s), "wait_idle")

\* "Final human-like behavior before closing".
Finishing(f, s) == Out("final_pause", f, [s EXCEPT !.current_step = "finishing reading"])

\* The clock is not read again in this pass: the two times are dropped.
TimesDone(f) == [f EXCEPT !.now = 0, !.link_click_time = 0]

\* After the scroll loop: "if not link_clicked" the final position is read.
AfterLoop(f, s) ==
    IF ~f.link_clicked THEN Out("final_pos", TimesDone(f), s) ELSE Finishing(TimesDone(f), s)

\* The head of "for session in range(scroll_sessions)": the loop ends when the
\* sessions are used up or the target position is reached.
LoopHead(f, s) ==
    IF f.session >= f.scroll_sessions \/ f.at_target
    THEN AfterLoop(f, s)
    ELSE Out("scroll", f, s)

\* NextSession with the session counter left as it is ("while" without "+= 1").
SameSession(f, s) == LoopHead(f, s)

\* The next turn of the for loop.
NextSession(f, s) == LoopHead([f EXCEPT !.session = @ + 1], s)

\* The except blocks around the link search and click; `op` is the call that raised.
SearchFailed(f, s, op) ==
    Raised(IF f.page_long
           THEN NextSession(TimesDone([f EXCEPT !.link_clicked = TRUE]),
                            [s EXCEPT !.current_step =
                                "link click failed - continuing reading"])
           ELSE Finishing([f EXCEPT !.results =
                              Append(@, StepResult("Human Reading", "OK", FixedDetail))],
                          s),
           op)

\* query_selector_all found no link.
NoLinks(f, s) ==
    IF f.page_long
    THEN NextSession(TimesDone([f EXCEPT !.link_clicked = TRUE]),
                     [s EXCEPT !.current_step =
                         "no financecity.me links found - continuing reading"])
    ELSE Finishing([f EXCEPT !.results =
                        Append(@, StepResult("Human Reading", "OK", NoLinksDetail))], s)

\* NoBox with the search repeated on a short page.
NoBoxSearchesAgain(f, s) ==
    IF f.page_long THEN NextSession(f, s) ELSE Out("find_links", f, s)

\* bounding_box() gave None: nothing is clicked and nothing is recorded.
NoBox(f, s) == IF f.page_long THEN NextSession(f, s) ELSE Finishing(f, s)

\* ReturnFromNewPage without "link_clicked = True" and "break".
ReturnFromNewPageGoesOn(f, s) ==
    IF f.page_long THEN NextSession(f, s) ELSE Finishing(f, s)

\* read_new_page returned: on a long page link_clicked is set and the loop left.
ReturnFromNewPage(f, s) ==
    IF f.page_long
    THEN AfterLoop([f EXCEPT !.link_clicked = TRUE], s)
    ELSE Finishing(f, s)

\* NewPageFailed without the except block: the exception leaves read_new_page
\* and run_once.
NewPageFailedPropagates(f, s, err) == RunOnceRaises(f, s, err)

\* read_new_page's "except Exception as e".
NewPageFailed(f, s, err) ==
    Raised(ReturnFromNewPage(
               [f EXCEPT !.results =
                   Append(@, StepResult("New Page Reading", "PARTIAL",
                                        PartialPrefix \o Truncate(err.text, PartialLimit)))],
               s),
           err.at)

\* The head of read_new_page's scroll loop.
NpLoopHead(f, s) ==
    IF f.np_session >= f.np_scroll_sessions \/ f.np_at_target
    THEN Out("np_final_pos", f, s)
    ELSE Out("np_scroll", f, s)

\* ---------------------------------------------------------- runner: steps
\* The instants the clock is read at.
ClockReadings == {k * ClockUnit : k \in 0..MaxClock}

\* The largest number of scroll sessions drawn: one more for a runner that runs
\* alone than for runners that run side by side.
SessionLimit == IF Len(pc) = 1 THEN MaxSessions + 1 ELSE MaxSessions

RECURSIVE SumPasses(_)
SumPasses(fr) == IF fr = <<>> THEN 0 ELSE Head(fr).passes + SumPasses(Tail(fr))
\* The passes all runners started so far.
PassesStarted == SumPasses(frame)

\* pick_url reading urls.txt again.
PickUrlFromFile ==
    LET lines == StripNonBlank(SplitLines(url_file.later))
    IN  {lines[k] : k \in 1..Len(lines)}

\* pick_url(): random.choice(urls_list).
PickUrl == {urls_list[k] : k \in 1..Len(urls_list)}

\* Runner i is resumed at the await it is suspended in.
Resumes(i, at) == ~exited /\ pc[i] = at /\ i \notin cancel_req

\* Apply writing the state object of the first runner.
ApplyToFirst(i, out) ==
    /\ pc' = [pc EXCEPT ![i] = out.pc]
    /\ frame' = [frame EXCEPT ![i] = out.frame]
    /\ states' = [states EXCEPT ![1] = out.state]
    /\ total_done' = total_done + out.done
    /\ UNCHANGED <<inputVars, mpc, urls_list, INSTANCES, browser, console_out,
                   exited, exit_code, cancel_req>>

\* The step of runner i: its position, the locals of its pass, the fields of
\* its own InstanceState and the shared counter.
Apply(i, out) ==
    /\ pc' = [pc EXCEPT ![i] = out.pc]
    /\ frame' = [frame EXCEPT ![i] = out.frame]
    /\ states' = [states EXCEPT ![i] = out.state]
    /\ total_done' = total_done + out.done
    /\ UNCHANGED <<inputVars, mpc, urls_list, INSTANCES, browser, console_out,
                   exited, exit_code, cancel_req>>

\* A call of run_once raises an exception with one of the texts.
Raises(i, op) ==
    \E t \in ErrorTexts : Apply(i, RunOnceRaises(frame[i], states[i], Error(t, op)))

\* BeginPass without state.status = "running".
BeginPassKeepsStatus(f, s, url) ==
    Out("new_context",
        [InitialFrame EXCEPT !.url = url, !.browser = browser,
                             !.consecutive_failures = f.consecutive_failures,
                             !.passes = f.passes + 1],
        [s EXCEPT !.current_step = "pick url", !.last_url = url])

\* The top of runner_task's "while True" up to run_once's first await.
BeginPass(f, s, url) ==
    Out("new_context",
        [InitialFrame EXCEPT !.url = url, !.browser = browser,
                             !.consecutive_failures = f.consecutive_failures,
                             !.passes = f.passes + 1],
        [s EXCEPT !.status = "running", !.current_step = "pick url", !.last_url = url])

\* The timer of runner i's first sleep is due before those of the other runners
\* still in theirs: all these sleeps began when the tasks were created, and the
\* event loop resumes sleeping tasks in the order of their deadlines.
StaggerElapsed(i) ==
    \A j \in DOMAIN pc : pc[j] = "stagger" => frame[j].delay_ms >= frame[i].delay_ms

\* The runner's sleep ends (the stagger, or the sleep after a pass) and the
\* next pass begins.
StartPass(i) ==
    /\ ~exited /\ i \notin cancel_req
    /\ pc[i] \in {"stagger", "sleep_ok", "sleep_err"}
    /\ pc[i] = "stagger" => StaggerElapsed(i)
    /\ PassesStarted < MaxPasses
    /\ \E url \in PickUrl : Apply(i, BeginPass(frame[i], states[i], url))

\* browser.new_context(...) returns the context or raises.
NewContext(i) ==
    /\ Resumes(i, "new_context")
    /\ \/ Apply(i, Out("setup", [frame[i] EXCEPT !.context = "open"], states[i]))
       \/ Raises(i, "new_context")

\* The init scripts, new_page, route and the page-level evaluate.
SetupPage(i) ==
    /\ Resumes(i, "setup")
    /\ \/ Apply(i, Out("goto", frame[i], [states[i] EXCEPT !.current_step = "opening url"]))
       \/ Raises(i, "setup")

\* page.goto(url, ...) returns, and wait_for_load is called, or raises.
Goto(i) ==
    /\ Resumes(i, "goto")
    /\ \/ Apply(i, CallWaitForLoad(frame[i], states[i], "open"))
       \/ Raises(i, "goto")

\* wait_for_load: the wait for "domcontentloaded" returns or raises.
WaitDomContentLoaded(i) ==
    /\ Resumes(i, "wfl_dom")
    /\ \/ Apply(i, Out("wfl_idle", frame[i], states[i]))
       \/ Apply(i, DomWaitRaised(frame[i], states[i]))

\* wait_for_load: the wait for "networkidle" returns or raises.
WaitNetworkIdle(i) ==
    /\ Resumes(i, "wfl_idle")
    /\ \/ Apply(i, WaitForLoadReturns(frame[i], states[i]))
       \/ Apply(i, IdleWaitRaised(frame[i], states[i]))

\* The initial wait ends, "Open URL" is recorded, the page's heights are asked for.
InitialWait(i) ==
    /\ Resumes(i, "initial_wait")
    /\ Apply(i, Out("dims",
                    [frame[i] EXCEPT !.results = Append(@, StepResult("Open URL", "OK",
                                                                      frame[i].url))],
                    states[i]))

\* The two evaluate calls give a long page (the scroll loop starts), a short
\* page (one reading period starts), or raise.
PageDims(i) ==
    /\ Resumes(i, "dims")
    /\ \/ \E n \in 1..SessionLimit, u \in {LinkClickMin, LinkClickMax} :
             Apply(i, LoopHead([frame[i] EXCEPT !.page_long = TRUE,
                                                !.scroll_sessions = n,
                                                !.session = 0,
                                                !.at_target = FALSE,
                                                !.now = 0,
                                                !.link_click_time = u,
                                                !.link_clicked = FALSE],
                               [states[i] EXCEPT !.current_step =
                                   "human reading & scrolling"]))
       \/ \E reading_time \in {ShortReadMin, ShortReadMax} :
             Apply(i, Out("short_read",
                          [frame[i] EXCEPT !.page_long = FALSE,
                                           !.delay_ms = reading_time * 1000],
                          [states[i] EXCEPT !.current_step = "reading short page"]))
       \/ Raises(i, "dims")

\* window.scrollTo of one session: the new position is at the target or not.
Scroll(i) ==
    /\ Resumes(i, "scroll")
    /\ \/ \E reached \in BOOLEAN :
             Apply(i, Out("read_sleep", [frame[i] EXCEPT !.at_target = reached],
                          [states[i] EXCEPT !.current_step = "reading content"]))
       \/ Raises(i, "scroll")

\* ClickDue without the comparison of the times.
ClickDueAtOnce(f, current_time) == ~f.link_clicked

\* "if not link_clicked and current_time >= link_click_time".
ClickDue(f, current_time) == ~f.link_clicked /\ current_time >= f.link_click_time

\* The reading time of one session ends and the clock is read: when no link was
\* clicked yet and the click time has come the links are searched, else the
\* next session starts.
ReadSleep(i) ==
    /\ Resumes(i, "read_sleep")
    /\ \E current_time \in {t \in ClockReadings : t >= frame[i].now} :
          LET f == [frame[i] EXCEPT !.now = current_time]
          IN  IF ClickDue(f, current_time)
              THEN Apply(i, Out("find_links", f,
                                [states[i] EXCEPT !.current_step =
                                    "looking for financecity.me links to click"]))
              ELSE Apply(i, NextSession(f, states[i]))

\* The reading period of a short page ends and the links are searched.
ShortRead(i) ==
    /\ Resumes(i, "short_read")
    /\ Apply(i, Out("find_links", [frame[i] EXCEPT !.delay_ms = 0],
                    [states[i] EXCEPT !.current_step =
                        "looking for financecity.me links to click"]))

\* page.query_selector_all: links, no link, or an exception.
FindLinks(i) ==
    /\ Resumes(i, "find_links")
    /\ LET f == [frame[i] EXCEPT !.searches = @ + 1]
       IN  \/ Apply(i, Out("bounding_box", f, states[i]))
           \/ Apply(i, NoLinks(f, states[i]))
           \/ Apply(i, SearchFailed(f, states[i], "find_links"))

\* link_to_click.bounding_box(): a box, None, or an exception.
BoundingBox(i) ==
    /\ Resumes(i, "bounding_box")
    /\ \/ Apply(i, Out("click", frame[i], states[i]))
       \/ Apply(i, NoBox(frame[i], states[i]))
       \/ Apply(i, SearchFailed(frame[i], states[i], "bounding_box"))

\* Scrolling the link into view and the mouse move, press and release: the
\* click is recorded and the page transition waited for, or one of them raises.
Click(i) ==
    /\ Resumes(i, "click")
    /\ \/ Apply(i, Out("click_wait",
                       [TimesDone(frame[i]) EXCEPT !.results =
                           Append(@, StepResult("Clicked FinanceCity Link", "OK",
                                                FixedDetail))],
                       [states[i] EXCEPT !.current_step =
                           "clicked financecity.me link - waiting for new page"]))
       \/ Apply(i, SearchFailed(frame[i], states[i], "click"))

\* The wait for the page transition ends and wait_for_load is called.
ClickWait(i) ==
    /\ Resumes(i, "click_wait")
    /\ Apply(i, CallWaitForLoad(frame[i], states[i], "click"))

\* read_new_page raises inside its try block.
NpRaises(i, op) ==
    \E t \in ErrorTexts : Apply(i, NewPageFailed(frame[i], states[i], Error(t, op)))

\* read_new_page: the pause ends and the new page's heights are asked for.
NpPause(i) ==
    /\ Resumes(i, "np_pause")
    /\ Apply(i, Out("np_dims", frame[i], states[i]))

\* read_new_page: a long new page (its scroll loop starts), a short one, or an
\* exception.
NpDims(i) ==
    /\ Resumes(i, "np_dims")
    /\ \/ \E n \in 1..MaxSessions :
             Apply(i, NpLoopHead([frame[i] EXCEPT !.np_scroll_sessions = n,
                                                  !.np_session = 0,
                                                  !.np_at_target = FALSE],
                                 [states[i] EXCEPT !.current_step = "reading new page"]))
       \/ Apply(i, Out("np_short_read", frame[i],
                       [states[i] EXCEPT !.current_step = "reading short new page"]))
       \/ NpRaises(i, "np_dims")

\* read_new_page: window.scrollTo of one session.
NpScroll(i) ==
    /\ Resumes(i, "np_scroll")
    /\ \/ \E reached \in BOOLEAN :
             Apply(i, Out("np_read_sleep", [frame[i] EXCEPT !.np_at_target = reached],
                          [states[i] EXCEPT !.current_step = "reading new page content"]))
       \/ NpRaises(i, "np_scroll")

\* read_new_page: the reading time of one session ends.
NpReadSleep(i) ==
    /\ Resumes(i, "np_read_sleep")
    /\ Apply(i, NpLoopHead([frame[i] EXCEPT !.np_session = @ + 1], states[i]))

\* read_new_page: window.pageYOffset after the loop.
NpFinalPos(i) ==
    /\ Resumes(i, "np_final_pos")
    /\ \/ Apply(i, Out("np_final_pause",
                       [frame[i] EXCEPT !.results =
                           Append(@, StepResult("New Page Reading", "OK", FixedDetail))],
                       [states[i] EXCEPT !.current_step = "finishing reading new page"]))
       \/ NpRaises(i, "np_final_pos")

\* read_new_page: the reading period of a short new page ends.
NpShortRead(i) ==
    /\ Resumes(i, "np_short_read")
    /\ Apply(i, Out("np_final_pause",
                    [frame[i] EXCEPT !.results =
                        Append(@, StepResult("New Page Reading", "OK", FixedDetail))],
                    [states[i] EXCEPT !.current_step = "finishing reading new page"]))

\* read_new_page: the final pause ends and read_new_page returns.
NpFinalPause(i) ==
    /\ Resumes(i, "np_final_pause")
    /\ Apply(i, ReturnFromNewPage(frame[i], states[i]))

\* window.pageYOffset after the scroll loop of the first page.
FinalPos(i) ==
    /\ Resumes(i, "final_pos")
    /\ \/ Apply(i, Finishing([frame[i] EXCEPT !.results =
                                 Append(@, StepResult("Human Reading", "OK", FixedDetail))],
                             states[i]))
       \/ Raises(i, "final_pos")

\* The final pause ends, "Reading Complete" is recorded and run_once returns
\* through its finally block.
FinalPause(i) ==
    /\ Resumes(i, "final_pause")
    /\ Apply(i, Finally([frame[i] EXCEPT !.results =
                            Append(@, StepResult("Reading Complete", "OK", FixedDetail))],
                        [states[i] EXCEPT !.current_step = "closing page"], NoError))

\* context.close() in the finally block returns or raises (suppressed).
CloseContext(i) ==
    /\ Resumes(i, "close")
    /\ \/ Apply(i, LeaveRunOnce([frame[i] EXCEPT !.context = "closed"], states[i]))
       \/ Apply(i, Raised(LeaveRunOnce([frame[i] EXCEPT !.context = "close_failed"],
                                       states[i]), "close"))

\* Cancel with CancelledError taken by "except Exception": runner_task counts it.
CancelCaught(at, f, s) ==
    IF at \in {"stagger", "sleep_ok", "sleep_err", "close"}
    THEN TaskCancelled(f, s)
    ELSE Finally(f, s, [CancelledError EXCEPT !.kind = "error"])

\* What CancelledError does to a task suspended at `at`: in a sleep of
\* runner_task or in context.close() the task ends, inside run_once the finally
\* block runs first.
Cancel(at, f, s) ==
    IF at \in {"stagger", "sleep_ok", "sleep_err", "close"}
    THEN TaskCancelled(f, s)
    ELSE Finally(f, s, CancelledError)

\* A cancelled runner task is resumed with CancelledError at its await.
Cancelled(i) ==
    /\ ~exited /\ i \in cancel_req
    /\ pc[i] # "cancelled"
    /\ cancel_req' = cancel_req \ {i}
    /\ LET out == Cancel(pc[i], frame[i], states[i])
       IN  /\ pc' = [pc EXCEPT ![i] = out.pc]
           /\ frame' = [frame EXCEPT ![i] = out.frame]
           /\ states' = [states EXCEPT ![i] = out.state]
    /\ UNCHANGED <<inputVars, mainVars>>

Runner(i) ==
    \/ StartPass(i)
    \/ NewContext(i)
    \/ SetupPage(i)
    \/ Goto(i)
    \/ WaitDomContentLoaded(i)
    \/ WaitNetworkIdle(i)
    \/ InitialWait(i)
    \/ PageDims(i)
    \/ Scroll(i)
    \/ ReadSleep(i)
    \/ ShortRead(i)
    \/ FindLinks(i)
    \/ BoundingBox(i)
    \/ Click(i)
    \/ ClickWait(i)
    \/ NpPause(i)
    \/ NpDims(i)
    \/ NpScroll(i)
    \/ NpReadSleep(i)
    \/ NpFinalPos(i)
    \/ NpShortRead(i)
    \/ NpFinalPause(i)
    \/ FinalPos(i)
    \/ FinalPause(i)
    \/ CloseContext(i)
    \/ Cancelled(i)

\* ------------------------------------------------------- main: the dashboard
\* The cell of the "Last URL" column: s.last_url[:40] and an ellipsis (written
\* "..." here) when the URL is longer.
UrlCell(url) == IF Len(url) > UrlCellLimit THEN Truncate(url, UrlCellLimit) \o <<"...">> ELSE url

\* sum(1 for s in states if s.status == 'running')
RECURSIVE Ongoing(_)
Ongoing(ss) ==
    IF ss = <<>> THEN 0
    ELSE (IF ss[Len(ss)].status = "running" THEN 1 ELSE 0) + Ongoing(SubSeq(ss, 1, Len(ss) - 1))

\* sum(s.runs ...), sum(s.successes ...), sum(s.failures ...) over the states.
RECURSIVE Totals(_)
Totals(ss) ==
    IF ss = <<>> THEN [runs |-> 0, successes |-> 0, failures |-> 0]
    ELSE LET rest == Totals(SubSeq(ss, 1, Len(ss) - 1))
             s == ss[Len(ss)]
         IN  [runs |-> rest.runs + s.runs,
              successes |-> rest.successes + s.successes,
              failures |-> rest.failures + s.failures]

\* make_dashboard(): one row per InstanceState and the totals row, built from
\* reads of states only.
make_dashboard ==
    [rows |-> [k \in 1..Len(states) |->
                  [inst |-> states[k].id, status |-> states[k].status,
                   current_step |-> states[k].current_step, runs |-> states[k].runs,
                   ok |-> states[k].successes, fail |-> states[k].failures,
                   last_url |-> UrlCell(states[k].last_url),
                   last_detail |-> states[k].last_detail]],
     totals |-> [runs |-> Totals(states).runs, ok |-> Totals(states).successes,
                 fail |-> Totals(states).failures, ongoing |-> Ongoing(states)]]

\* One round of the dashboard loop: live.update(make_dashboard(), refresh=True)
\* draws the table on the terminal, which keeps nothing the program reads, and
\* main sleeps again.
DashboardRefresh ==
    /\ mpc = "dashboard"
    /\ Len(make_dashboard.rows) = INSTANCES
    /\ UNCHANGED vars

\* KeyboardInterrupt (or SystemExit) raised in main's dashboard loop: every
\* runner task is cancelled and main waits for them.
KeyboardInterruptInMain ==
    /\ mpc = "dashboard"
    /\ cancel_req' = DOMAIN pc
    /\ mpc' = "gather"
    /\ UNCHANGED <<inputVars, urls_list, INSTANCES, states, total_done, browser,
                   console_out, exited, exit_code, pc, frame>>

\* The interrupt arrives as a cancellation of the main task (asyncio.run's SIGINT
\* handler, Python 3.11 and later): CancelledError is raised at the dashboard
\* loop's sleep, "except (KeyboardInterrupt, SystemExit)" does not take it, and
\* the finally block waits for the runners, none of which was cancelled.
MainTaskCancelled ==
    /\ mpc = "dashboard"
    /\ mpc' = "gather_cancelled"
    /\ UNCHANGED <<inputVars, urls_list, INSTANCES, states, total_done, browser,
                   console_out, exited, exit_code, pc, frame, cancel_req>>

\* An error is raised while the table is rendered (by make_dashboard, by
\* live.update or by Live itself): "except (KeyboardInterrupt, SystemExit)" does
\* not take an Exception, and the finally block waits for the runners, none of
\* which was cancelled.
DashboardRaises ==
    /\ mpc = "dashboard"
    /\ mpc' = "gather_error"
    /\ UNCHANGED <<inputVars, urls_list, INSTANCES, states, total_done, browser,
                   console_out, exited, exit_code, pc, frame, cancel_req>>

\* KeyboardInterrupt is raised outside main's code (while the event loop waits
\* or a runner runs; on Python 3.11 and later by a second interrupt): it leaves
\* the event loop, and asyncio.run cancels every task that has not ended.
KeyboardInterruptOutsideMain ==
    /\ mpc \in {"dashboard", "gather_cancelled", "gather_error"}
    /\ cancel_req' = {i \in DOMAIN pc : pc[i] # "cancelled"}
    /\ mpc' = "shutdown"
    /\ UNCHANGED <<inputVars, urls_list, INSTANCES, states, total_done, browser,
                   console_out, exited, exit_code, pc, frame>>

\* Every task has ended after asyncio.run cancelled them: asyncio.run raises
\* KeyboardInterrupt, "except KeyboardInterrupt: pass" takes it and the process
\* ends with status 0; main has not returned.
ProcessInterrupted ==
    /\ mpc = "shutdown"
    /\ \A i \in DOMAIN pc : pc[i] = "cancelled"
    /\ mpc' = "interrupted"
    /\ exited' = TRUE
    /\ exit_code' = 0
    /\ UNCHANGED <<inputVars, urls_list, INSTANCES, states, total_done, browser,
                   console_out, pc, frame, cancel_req>>

\* asyncio.gather(*runners, return_exceptions=True) completes once every runner
\* task has ended; main returns and the process ends with status 0.
MainReturns ==
    /\ mpc = "gather"
    /\ \A i \in DOMAIN pc : pc[i] = "cancelled"
    /\ mpc' = "returned"
    /\ exited' = TRUE
    /\ exit_code' = 0
    /\ UNCHANGED <<inputVars, urls_list, INSTANCES, states, total_done, browser,
                   console_out, pc, frame, cancel_req>>

Next ==
    \/ NextStartup
    \/ \E i \in DOMAIN pc : StartPass(i)
    \/ \E i \in DOMAIN pc : NewContext(i)
    \/ \E i \in DOMAIN pc : SetupPage(i)
    \/ \E i \in DOMAIN pc : Goto(i)
    \/ \E i \in DOMAIN pc : WaitDomContentLoaded(i)
    \/ \E i \in DOMAIN pc : WaitNetworkIdle(i)
    \/ \E i \in DOMAIN pc : InitialWait(i)
    \/ \E i \in DOMAIN pc : PageDims(i)
    \/ \E i \in DOMAIN pc : Scroll(i)
    \/ \E i \in DOMAIN pc : ReadSleep(i)
    \/ \E i \in DOMAIN pc : ShortRead(i)
    \/ \E i \in DOMAIN pc : FindLinks(i)
    \/ \E i \in DOMAIN pc : BoundingBox(i)
    \/ \E i \in DOMAIN pc : Click(i)
    \/ \E i \in DOMAIN pc : ClickWait(i)
    \/ \E i \in DOMAIN pc : NpPause(i)
    \/ \E i \in DOMAIN pc : NpDims(i)
    \/ \E i \in DOMAIN pc : NpScroll(i)
    \/ \E i \in DOMAIN pc : NpReadSleep(i)
    \/ \E i \in DOMAIN pc : NpFinalPos(i)
    \/ \E i \in DOMAIN pc : NpShortRead(i)
    \/ \E i \in DOMAIN pc : NpFinalPause(i)
    \/ \E i \in DOMAIN pc : FinalPos(i)
    \/ \E i \in DOMAIN pc : FinalPause(i)
    \/ \E i \in DOMAIN pc : CloseContext(i)
    \/ \E i \in DOMAIN pc : Cancelled(i)
    \/ DashboardRefresh
    \/ KeyboardInterruptInMain
    \/ MainTaskCancelled
    \/ DashboardRaises
    \/ KeyboardInterruptOutsideMain
    \/ MainReturns
    \/ ProcessInterrupted

Spec == Init /\ [][Next]_vars

\* The event loop resumes every task whose await has completed: each runner
\* that can take a step eventually takes one. The runs followed under this
\* fairness are those of one runner (and a run that ends at the URL file).
MaxRunners == 1
LiveSetups ==
    {su \in RunSetups : ~su.file.exists \/ su.input.text = <<"5", "1">>}
InitLive == InitWith(LiveSetups)
RunnerStep(i) == i \in DOMAIN pc /\ Runner(i)
LiveSpec == InitLive /\ [][Next]_vars /\ \A i \in 1..MaxRunners : WF_vars(RunnerStep(i))

\* ===================================================================== claims
\* The calls whose exception leaves run_once, and the calls whose exception an
\* inner except block (or the suppress around context.close) takes.
Propagating == {"new_context", "setup", "goto", "dims", "scroll", "final_pos"}
Swallowed == {"wait_dom", "wait_idle", "find_links", "bounding_box", "click",
              "np_dims", "np_scroll", "np_final_pos", "close"}

IsPrefix(p, t) == Len(p) <= Len(t) /\ \A k \in 1..Len(p) : p[k] = t[k]

\* Runner i sleeps after a pass that ended with the exception page.goto raised.
NavFailed(i) == pc[i] = "sleep_err" /\ frame[i].e.at = "goto"

\* Runner i takes the step that ends a pass in which page.goto raised.
EndsNavFailedPass(i) ==
    /\ pc[i] = "close" /\ frame[i].pending.kind = "error" /\ frame[i].pending.at = "goto"
    /\ pc'[i] # "close"

\* C1: a pass whose page.goto raises ends with runs and failures one higher and
\* successes unchanged, status "error/restarting" and last_detail the first (at
\* most 100) characters of the error text; the runner then starts another pass
\* (unless its task is cancelled), however many navigations failed before, and
\* the process does not end because of it.
C1_NavFailureCounted ==
    /\ [](\A i \in DOMAIN pc :
            NavFailed(i) =>
                /\ states[i].status = "error/restarting"
                /\ Len(states[i].last_detail) = Min(Len(frame[i].e.text), DetailLimit)
                /\ IsPrefix(states[i].last_detail, frame[i].e.text)
                /\ ~exited
                /\ (i \notin cancel_req /\ PassesStarted < MaxPasses) => ENABLED StartPass(i))
    /\ [][\A i \in DOMAIN pc :
            /\ (frame'[i].raised_by = "goto" /\ frame[i].raised_by # "goto") =>
                  /\ pc'[i] = "close" /\ frame'[i].pending.at = "goto"
                  /\ states'[i].runs = states[i].runs
                  /\ states'[i].failures = states[i].failures
            /\ EndsNavFailedPass(i) =>
                  \/ pc'[i] = "cancelled" /\ i \in cancel_req
                  \/ /\ NavFailed(i)'
                     /\ frame'[i].e = frame[i].pending
                     /\ states'[i].runs = states[i].runs + 1
                     /\ states'[i].failures = states[i].failures + 1
                     /\ states'[i].successes = states[i].successes
            /\ (NavFailed(i) /\ pc'[i] # pc[i]) =>
                  \/ pc'[i] = "cancelled" /\ i \in cancel_req
                  \/ pc'[i] = "new_context" /\ states'[i].status = "running"
            /\ (NavFailed(i) /\ pc'[i] = pc[i]) => states'[i] = states[i]]_vars

\* The second pass in a row of one runner failed at page.goto, with an error
\* text longer than the detail column.
C1_Witness ==
    \E i \in DOMAIN pc :
        /\ NavFailed(i)
        /\ Len(frame[i].e.text) > DetailLimit
        /\ states[i].failures = 2 /\ states[i].runs = 2 /\ states[i].successes = 0

\* urls.txt can be read and no line of it has a character that is not blank.
NoUrlInFile == url_file.exists /\ \A k \in 1..Len(url_file.text) : url_file.text[k] \in Whitespace

\* C2: when urls.txt has no non-blank line main prints "No URLs found in the
\* file" and the process ends (with status 1) before the prompt, before a browser
\* is launched and before any InstanceState or runner task exists.
C2_EmptyUrlFileTerminates ==
    NoUrlInFile =>
        /\ mpc \in {"read_urls", "exited"}
        /\ states = <<>> /\ pc = <<>> /\ browser = "None"
        /\ mpc = "read_urls" => console_out = <<>> /\ ~exited
        /\ mpc = "exited" =>
              /\ exited /\ exit_code = 1
              /\ console_out = <<"No URLs found in the file">>
              /\ ~ENABLED NextStartup

\* main has ended on a urls.txt of blank lines only.
C2_Witness ==
    /\ NoUrlInFile /\ Len(url_file.text) = MaxFileLen
    /\ \E k \in 1..Len(url_file.text) : url_file.text[k] = " "
    /\ exited

\* The count the prompt's answer stands for, where it is a plain case.
PlainAnswers ==
    {[text |-> <<"5", "0">>, count |-> 50], [text |-> <<"5", "1">>, count |-> 1],
     [text |-> <<"1">>, count |-> 1], [text |-> <<"0">>, count |-> 1],
     [text |-> <<"-", "1">>, count |-> 1], [text |-> <<"+", "5">>, count |-> 5],
     [text |-> <<" ", "5">>, count |-> 5], [text |-> <<"1", "5">>, count |-> 15],
     [text |-> <<"a">>, count |-> 1], [text |-> <<"5", "a">>, count |-> 1],
     [text |-> <<"1", "_">>, count |-> 1], [text |-> <<>>, count |-> 1]}

\* C3: once the prompt is answered, the number of InstanceStates (and later of
\* runner tasks) is n when the answer is an integer n with 1 <= n <= 50 and 1 for
\* every other answer (out of range, not a number, the input closed); the ids
\* are 1..count.
C3_InstanceCount ==
    mpc \notin {"read_urls", "prompt", "exited"} \/ states # <<>> =>
        LET n == ParseInt(user_in.text)
            count == IF ~user_in.eof /\ n.ok /\ 1 <= n.val /\ n.val <= 50 THEN n.val ELSE 1
        IN  /\ Len(states) = count /\ INSTANCES = count
            /\ \A i \in 1..count : states[i].id = i
            /\ pc # <<>> => Len(pc) = count
            /\ user_in.eof => count = 1
            /\ \A a \in PlainAnswers : (~user_in.eof /\ user_in.text = a.text) => count = a.count

\* Fifty runner tasks were started on the answer "50".
C3_Witness ==
    /\ ~user_in.eof /\ user_in.text = <<"5", "0">>
    /\ Len(pc) = 50 /\ Len(states) = 50 /\ states[50].id = 50

\* Runner i is where an exception raised by `op` is on its way to runner_task,
\* or has been counted there.
OnFailurePath(i, op) ==
    \/ pc[i] = "close" /\ frame[i].pending.kind = "error" /\ frame[i].pending.at = op
    \/ pc[i] = "sleep_err" /\ frame[i].e.at = op

\* C4 as stated: whatever call of a pass raises, the exception goes to
\* runner_task's except block and the pass is counted as a failure.
C4_EveryExceptionCounted ==
    \A i \in DOMAIN pc :
        frame[i].raised_by # "none" => OnFailurePath(i, frame[i].raised_by)

\* C4, amended: an exception raised by new_context, the page setup, page.goto,
\* the page-height reads, a scroll or the final position read ends the pass and
\* is counted once as a failure by runner_task; an exception raised inside
\* wait_for_load, the link search and click, read_new_page or context.close()
\* is taken where it is raised, never reaches runner_task, and the pass goes on.
C4_PropagatingCounted ==
    /\ [](\A i \in DOMAIN pc :
            LET f == frame[i]
            IN  /\ f.raised_by \in Propagating => OnFailurePath(i, f.raised_by)
                /\ f.raised_by \in Swallowed \ {"close"} =>
                      /\ pc[i] \notin {"close", "sleep_err", "sleep_ok", "cancelled"}
                      /\ f.pending.kind = "none"
                /\ f.raised_by = "close" => pc[i] \in {"sleep_ok", "sleep_err", "cancelled"}
                /\ f.pending.at \notin Swallowed /\ f.e.at \notin Swallowed)
    /\ [][\A i \in DOMAIN pc :
            /\ (pc[i] = "close" /\ frame[i].pending.kind = "error" /\ pc'[i] # "close") =>
                  \/ pc'[i] = "cancelled" /\ i \in cancel_req
                  \/ pc'[i] = "sleep_err" /\ frame'[i].e = frame[i].pending
            /\ (pc'[i] = "sleep_err" /\ pc[i] # "sleep_err") =>
                  /\ states'[i].failures = states[i].failures + 1
                  /\ frame'[i].e.kind = "error" /\ frame'[i].e.at \in Propagating
            /\ states'[i].failures # states[i].failures =>
                  pc'[i] = "sleep_err" /\ pc[i] # "sleep_err"]_vars

\* A pass was counted as failed for the exception a page-height read raised.
C4_Witness ==
    \E i \in DOMAIN pc :
        /\ pc[i] = "sleep_err" /\ frame[i].e.at = "dims"
        /\ states[i].failures = 1 /\ states[i].runs = 1

\* C5 as stated: whatever fails, the process never ends with an error status.
C5_NeverExitsWithError == ~(exited /\ exit_code # 0)

StartupErrors == {"Failed to read URL file", "No URLs found in the file", "Traceback"}

\* C5, amended: a failure inside a pass never ends the process; the process
\* ends with status 1 only during startup, before any runner task exists, when
\* urls.txt cannot be read or has no URL, when the browser driver does not
\* start or when both browser launches fail.
C5_OnlyStartupFailuresFatal ==
    /\ [](/\ (exited /\ exit_code # 0) =>
                /\ exit_code = 1 /\ mpc = "exited" /\ pc = <<>>
                /\ console_out # <<>> /\ console_out[Len(console_out)] \in StartupErrors
          /\ mpc = "exited" => exited /\ exit_code = 1
          /\ (exited /\ pc # <<>>) => exit_code = 0 /\ mpc \in {"returned", "interrupted"}
          /\ \A i \in DOMAIN pc : pc[i] \in {"close", "sleep_err"} => ~exited)
    /\ [][(pc # <<>> /\ pc' # pc) => (exited' = exited /\ exit_code' = exit_code)]_vars

\* Two passes of a runner failed and the process is running.
C5_Witness ==
    \E i \in DOMAIN pc :
        states[i].failures = 2 /\ pc[i] = "sleep_err" /\ ~exited /\ mpc = "dashboard"

Statuses == {"idle", "running", "error/restarting"}
StatusChanges ==
    {<<"idle", "running">>, <<"running", "idle">>, <<"running", "error/restarting">>,
     <<"error/restarting", "running">>}

\* C6: the status of every InstanceState is "idle", "running" or
\* "error/restarting", and it only changes from idle to running, from running
\* to idle, from running to error/restarting and from error/restarting to running.
C6_StatusTransitions ==
    /\ [](\A i \in DOMAIN states : states[i].status \in Statuses)
    /\ [][\A i \in DOMAIN states \cap DOMAIN states' :
            states'[i].status # states[i].status =>
                <<states[i].status, states'[i].status>> \in StatusChanges]_vars

\* A runner is in its second pass after a failed first one.
C6_Witness ==
    \E i \in DOMAIN states :
        /\ states[i].status = "running"
        /\ states[i].failures = 1 /\ states[i].runs = 1

\* Where runner i is and its status, "none" while (or where) there is no runner i.
PcOf(i) == IF i \in DOMAIN pc THEN pc[i] ELSE "none"
StatusOf(i) == IF i \in DOMAIN pc THEN states[i].status ELSE "none"

\* Runner i is inside run_once (or in its finally block); it sleeps in runner_task.
InPass(i) == PcOf(i) \notin {"none", "stagger", "sleep_ok", "sleep_err", "cancelled"}
Sleeping(i) == PcOf(i) \in {"stagger", "sleep_ok", "sleep_err"}

\* C7: while main is not interrupted, and with every await of a runner ending
\* (by returning or by raising), every pass of every runner ends and after every
\* pass, successful or failed, the runner is in status "running" again (as long
\* as passes are left to start).
C7_RunsForever ==
    \A i \in 1..MaxRunners :
        /\ InPass(i) ~> (mpc # "dashboard" \/ PcOf(i) \in {"sleep_ok", "sleep_err"})
        /\ Sleeping(i) ~>
              (mpc # "dashboard" \/ PassesStarted >= MaxPasses \/ StatusOf(i) = "running")

\* A runner is in its second pass after a successful first one.
C7_Witness ==
    \E i \in DOMAIN pc :
        /\ states[i].status = "running" /\ InPass(i)
        /\ states[i].runs = 1 /\ states[i].successes = 1

\* Where wait_for_load's caller goes on.
Continuation(caller) ==
    CASE caller = "open" -> "initial_wait"
      [] caller = "click" -> "wfl_dom"
      [] caller = "new_page" -> "np_pause"
      [] OTHER -> "none"

\* The pass of runner i goes on in or after wait_for_load, no exception pending.
Proceeds(i) ==
    /\ frame[i].pending.kind = "none"
    /\ pc[i] \in {"wfl_idle"} \cup {Continuation(c) : c \in {"open", "click", "new_page"}}

\* Runner i's step is the delivery of its task's cancellation inside run_once.
CancelledInPass(i) ==
    i \in cancel_req /\ pc'[i] = "close" /\ frame'[i].pending.kind = "cancelled"

\* C8 as stated: when page.goto or a load-state wait fails the exception is
\* swallowed and the pass goes on towards reading and scrolling.
C8_NavigationSwallowed ==
    \A i \in DOMAIN pc :
        frame[i].raised_by \in {"goto", "wait_dom", "wait_idle"} => Proceeds(i)

\* C8, amended: a failed load-state wait (in wait_for_load) is swallowed and the
\* pass goes on to the initial wait and to reading the page heights; a failed
\* page.goto is not swallowed: it ends the pass, which is counted as a failure.
C8_LoadWaitSwallowed ==
    /\ [](\A i \in DOMAIN pc :
            /\ frame[i].raised_by \in {"wait_dom", "wait_idle"} => Proceeds(i)
            /\ frame[i].raised_by = "goto" => OnFailurePath(i, "goto") /\ ~Proceeds(i))
    /\ [][\A i \in DOMAIN pc :
            (pc[i] = "initial_wait" /\ pc'[i] # pc[i]) =>
                \/ CancelledInPass(i)
                \/ /\ pc'[i] = "dims"
                   /\ frame'[i].results = <<StepResult("Open URL", "OK", frame[i].url)>>]_vars

\* The wait for "networkidle" after page.goto failed and the pass is in its
\* initial wait.
C8_Witness ==
    \E i \in DOMAIN pc :
        /\ pc[i] = "initial_wait" /\ frame[i].raised_by = "wait_idle"
        /\ frame[i].wfl_caller = "open" /\ frame[i].context = "open"

\* C9: wait_for_load never raises. Whether the wait for "domcontentloaded"
\* returns or raises, the wait for "networkidle" comes next; whether that one
\* returns or raises, the caller goes on; no exception is left pending. (Only
\* the cancellation of the task ends wait_for_load otherwise.)
C9_WaitForLoadNeverRaises ==
    /\ [](\A i \in DOMAIN pc :
            /\ frame[i].raised_by = "wait_dom" =>
                  pc[i] = "wfl_idle" /\ frame[i].pending.kind = "none"
            /\ frame[i].raised_by = "wait_idle" =>
                  /\ pc[i] \in {"initial_wait", "wfl_dom", "np_pause"}
                  /\ frame[i].pending.kind = "none"
            /\ pc[i] \in {"wfl_dom", "wfl_idle"} =>
                  /\ frame[i].wfl_caller \in {"open", "click", "new_page"}
                  /\ frame[i].pending.kind = "none")
    /\ [][\A i \in DOMAIN pc :
            /\ (pc[i] = "wfl_dom" /\ pc'[i] # pc[i]) =>
                  \/ CancelledInPass(i)
                  \/ pc'[i] = "wfl_idle" /\ frame'[i].wfl_caller = frame[i].wfl_caller
            /\ (pc[i] = "wfl_idle" /\ pc'[i] # pc[i]) =>
                  \/ CancelledInPass(i)
                  \/ pc'[i] = Continuation(frame[i].wfl_caller)
            /\ (pc'[i] = "wfl_idle" /\ pc[i] # pc'[i]) => pc[i] = "wfl_dom"]_vars

\* In read_new_page's wait_for_load the first wait raised and the second one
\* is under way.
C9_Witness ==
    \E i \in DOMAIN pc :
        /\ pc[i] = "wfl_idle" /\ frame[i].raised_by = "wait_dom"
        /\ frame[i].wfl_caller = "new_page"

\* C10: after every failed pass, the k-th in a row as the first, the runner
\* sleeps the same 2 s and then starts the next pass: no count of failures
\* in a row makes it wait longer or stop.
C10_FixedDelayRetry ==
    /\ [](\A i \in DOMAIN pc :
            pc[i] = "sleep_err" =>
                /\ frame[i].consecutive_failures >= 1
                /\ frame[i].consecutive_failures <= states[i].failures
                /\ frame[i].delay_ms = 2000
                /\ (~exited /\ i \notin cancel_req /\ PassesStarted < MaxPasses)
                       => ENABLED StartPass(i))
    /\ [][\A i \in DOMAIN pc :
            /\ (pc[i] = "sleep_err" /\ pc'[i] # pc[i]) =>
                  \/ pc'[i] = "cancelled" /\ i \in cancel_req
                  \/ /\ pc'[i] = "new_context"
                     /\ frame'[i].consecutive_failures = frame[i].consecutive_failures
            /\ (pc'[i] = "sleep_err" /\ pc[i] # pc'[i]) =>
                  frame'[i].consecutive_failures = frame[i].consecutive_failures + 1]_vars

\* A runner sleeps after its second failed pass in a row.
C10_Witness ==
    \E i \in DOMAIN pc :
        /\ pc[i] = "sleep_err" /\ frame[i].consecutive_failures = 2
        /\ frame[i].delay_ms = ErrorDelayMs

\* Runner i is outside run_once: before its first pass, between two passes, or
\* its task has ended.
OutsidePass(i) == pc[i] \in {"stagger", "sleep_ok", "sleep_err", "cancelled"}

\* C11: every context a pass opened is torn down when the pass ends. However
\* run_once is left (return, exception, cancellation), close has been called on
\* the context it opened; a runner in status "idle" or "error/restarting" has no
\* open context; a runner opens a context only when it holds none and starts a
\* pass only after the close of the last one returned or raised; a step of one
\* runner never touches the context of another.
C11_ContextTornDown ==
    /\ [](\A i \in DOMAIN pc :
            /\ OutsidePass(i) =>
                  frame[i].context \in {"None", "closing", "closed", "close_failed"}
            /\ (OutsidePass(i) /\ frame[i].context = "closing") => pc[i] = "cancelled"
            /\ states[i].status \in {"idle", "error/restarting"} =>
                  frame[i].context \in {"None", "closed", "close_failed"}
            /\ frame[i].context = "closing" => pc[i] \in {"close", "cancelled"}
            /\ pc[i] = "close" => frame[i].context = "closing")
    /\ [][\A i \in DOMAIN pc :
            /\ (frame'[i].context = "open" /\ frame[i].context # "open") =>
                  pc[i] = "new_context" /\ frame[i].context = "None"
            /\ (frame[i].context = "open" /\ frame'[i].context # "open") =>
                  frame'[i].context = "closing" /\ pc'[i] = "close"
            /\ (frame[i].context = "closing" /\ frame'[i].context # "closing") =>
                  frame'[i].context \in {"closed", "close_failed"} /\ pc[i] = "close"
            /\ (frame'[i].context = "None" /\ frame[i].context # "None") =>
                  pc'[i] = "new_context" /\ frame[i].context \in {"closed", "close_failed"}
            /\ \A j \in DOMAIN pc :
                  (j # i /\ pc'[i] # pc[i]) => frame'[j].context = frame[j].context]_vars

\* A task was cancelled inside its second pass, after a failed first one, and
\* the context of that pass has been closed.
C11_Witness ==
    \E i \in DOMAIN pc :
        /\ pc[i] = "cancelled" /\ frame[i].context = "closed"
        /\ states[i].status = "running" /\ states[i].failures = 1

\* ------------------------------------------------------------------ C12
\* The process was interrupted while the dashboard ran.
Interrupted == pc # <<>> /\ mpc # "dashboard"

\* cancel() was called on runner task i: the cancellation is pending, is being
\* carried through run_once's finally block, or has ended the task.
CancelCalled(i) ==
    \/ i \in cancel_req
    \/ pc[i] = "cancelled"
    \/ pc[i] = "close" /\ frame[i].pending.kind = "cancelled"

\* C12: a process-level interrupt cancels all runner tasks: once the process
\* was interrupted, every runner task has been cancelled, no runner starts
\* another pass, and the process only ends by main returning.
C12_InterruptCancelsRunners ==
    /\ [](Interrupted => \A i \in DOMAIN pc : CancelCalled(i))
    /\ [](exited /\ pc # <<>> => mpc = "returned")
    /\ [][Interrupted =>
            \A i \in DOMAIN pc : frame'[i].passes = frame[i].passes]_vars

\* ------------------------------------------------------------------ C13
\* The step is one of runner i.
StepOf(i) == pc'[i] # pc[i] \/ frame'[i] # frame[i]

\* C13: each InstanceState is written only by its own runner: a step of runner
\* i leaves every field of the state of every other runner unchanged, and a
\* step of no runner (the dashboard loop's make_dashboard, the interrupt
\* handling) leaves every InstanceState unchanged.
C13_StateOwnedByRunner ==
    [][pc # <<>> =>
          /\ \A i \in DOMAIN pc : \A j \in DOMAIN pc :
                (i # j /\ StepOf(i)) => states'[j] = states[j]
          /\ (\A i \in DOMAIN pc : ~StepOf(i)) => states' = states
          /\ \A i \in DOMAIN pc : states'[i].id = i]_vars

\* Two runners have each finished a pass while the dashboard loop runs.
C13_Witness ==
    /\ Len(pc) = 2 /\ mpc = "dashboard"
    /\ states[1].runs = 1 /\ states[2].runs = 1

\* ------------------------------------------------------------------ C14
\* The nine device fields of a profile are those of the table entry e.
FromEntry(profile, e) ==
    /\ profile.user_agent = e.user_agent
    /\ profile.viewport = e.viewport
    /\ profile.device_scale_factor = e.device_scale_factor
    /\ profile.is_mobile = e.is_mobile
    /\ profile.has_touch = e.has_touch
    /\ profile.platform = e.platform
    /\ profile.device_memory = e.device_memory
    /\ profile.hardware_concurrency = e.hardware_concurrency
    /\ profile.max_touch_points = e.max_touch_points

TableEntries ==
    {DESKTOP_PROFILES[k] : k \in DOMAIN DESKTOP_PROFILES}
        \cup {MOBILE_PROFILES[k] : k \in DOMAIN MOBILE_PROFILES}
        \cup {TABLET_PROFILES[k] : k \in DOMAIN TABLET_PROFILES}

\* C14: in every profile returned by random_profile the user agent, viewport,
\* scale factor, is_mobile, has_touch, platform, device memory, hardware
\* concurrency and touch points all come from one single entry of the three
\* device tables.
C14_ProfileFromOneEntry ==
    fp # <<>> => \E e \in TableEntries : FromEntry(fp[1], e)

\* A profile of a mobile device has been returned.
C14_Witness == fp # <<>> /\ fp[1].platform = "iPhone" /\ fp[1].device_memory = 8

\* ------------------------------------------------------------------ C15
\* The lines of the text urls.txt held at startup.
StartupLines == {SplitLines(url_file.text)[k] : k \in 1..Len(SplitLines(url_file.text))}

\* C15: the URL file is read once at startup: each runner's last_url is empty
\* or one of the non-blank, stripped lines the file held at startup, whatever
\* the file holds later, and urls_list never changes once it was loaded.
C15_UrlsReadOnce ==
    /\ [](\A i \in 1..Len(states) :
            \/ states[i].last_url = <<>>
            \/ /\ \E k \in 1..Len(states[i].last_url) :
                     states[i].last_url[k] \notin Whitespace
               /\ states[i].last_url[1] \notin Whitespace
               /\ states[i].last_url[Len(states[i].last_url)] \notin Whitespace
               /\ \E line \in StartupLines : Strip(line) = states[i].last_url)
    /\ [](states # <<>> =>
            \A k \in 1..Len(urls_list) : \E line \in StartupLines : Strip(line) = urls_list[k])
    /\ [][mpc # "read_urls" => urls_list' = urls_list]_vars

\* A runner works on the URL of the second line of the startup text, stripped,
\* while the file holds another URL.
C15_Witness ==
    /\ states # <<>> /\ states[1].last_url = <<"b">>
    /\ url_file.later = <<"c", " ", NL>>

\* ------------------------------------------------------------------ C16
\* C16: no runner executes a pass before the shared browser was launched, and
\* every pass of every runner uses that one browser handle: the runner tasks
\* exist only once a launch has succeeded, main's browser is not assigned again
\* afterwards, and when the first launch and the retry both fail the process
\* ends without any runner task.
C16_BrowserBeforeRunners ==
    /\ [](pc # <<>> => browser = "launched")
    /\ [](\A i \in DOMAIN pc :
            /\ frame[i].browser \in {"None", browser}
            /\ InPass(i) => frame[i].browser = "launched")
    /\ [](browser = "None" /\ exited => pc = <<>>)
    /\ [][/\ pc # <<>> => browser' = browser
          /\ (pc = <<>> /\ pc' # <<>>) => browser = "launched"
          /\ (mpc = "relaunch" /\ browser' = "None" /\ mpc' # mpc) =>
                exited' /\ exit_code' = 1 /\ pc' = <<>>]_vars

\* Two runners are each in a pass on the launched browser.
C16_Witness ==
    /\ Len(pc) = 2 /\ InPass(1) /\ InPass(2)
    /\ frame[1].browser = "launched" /\ frame[2].browser = "launched"

\* ------------------------------------------------------------------ C17
\* Runner i can take a step: it is neither ended nor cancelled, and when it
\* sleeps between passes another pass is left to start.
Unhindered(i) ==
    /\ ~exited /\ i \notin cancel_req /\ pc[i] # "cancelled"
    /\ Sleeping(i) => PassesStarted < MaxPasses

\* C17: runner starts are staggered. Before its first pass runner i sleeps for
\* i * 0.5 s with status "idle"; of two runners the one with the smaller id is
\* the first to start a pass; and a runner that has started its first pass can
\* always take its next step, wherever the other runners are.
C17_StaggeredStarts ==
    \A i \in DOMAIN pc :
        /\ pc[i] = "stagger" =>
              /\ states[i].status = "idle" /\ frame[i].passes = 0
              /\ frame[i].delay_ms = i * StaggerMs
        /\ \A j \in DOMAIN pc : (i < j /\ frame[j].passes >= 1) => frame[i].passes >= 1
        /\ (frame[i].passes >= 1 /\ Unhindered(i)) => ENABLED Runner(i)

\* The second runner is in its first pass while the first runner, which began
\* before it, sleeps after a pass.
C17_Witness ==
    /\ Len(pc) = 2 /\ pc[1] \in {"sleep_ok", "sleep_err"}
    /\ InPass(2) /\ frame[2].passes = 1

\* ------------------------------------------------------------------ C18
\* The clicks recorded in the pass runner i is in.
Clicks(i) ==
    Cardinality({k \in 1..Len(frame[i].results) :
                    frame[i].results[k].step = "Clicked FinanceCity Link"})

\* Where a runner can be between a click and the end of the pass: waiting for
\* the new page, loading and reading it, finishing and closing.
AfterClick ==
    {"click_wait", "wfl_dom", "wfl_idle", "np_pause", "np_dims", "np_scroll",
     "np_read_sleep", "np_final_pos", "np_short_read", "np_final_pause",
     "final_pause", "close", "cancelled"}

\* C18: within one pass at most one link is clicked: once a link was clicked the
\* scroll loop is left, the new page is only scrolled and waited on, and no
\* link is searched or clicked again before the pass ends.
C18_AtMostOneClick ==
    /\ [](\A i \in DOMAIN pc :
            /\ Clicks(i) <= 1
            /\ Clicks(i) = 1 => pc[i] \in AfterClick)
    /\ [][\A i \in DOMAIN pc :
            Clicks(i) = 1 =>
               /\ frame'[i].searches = frame[i].searches \/ frame'[i].results = <<>>
               /\ Clicks(i)' = 1 \/ frame'[i].results = <<>>]_vars

\* After a click on a long page that had a second scroll session left, the new
\* page has been read and the pass is finishing.
C18_Witness ==
    \E i \in DOMAIN pc :
        /\ Clicks(i) = 1 /\ pc[i] = "final_pause"
        /\ frame[i].page_long /\ frame[i].session < frame[i].scroll_sessions - 1

\* ------------------------------------------------------------------ C19
\* Runner i is searching or clicking a link.
Searching(i) == pc[i] \in {"find_links", "bounding_box", "click"}

\* Runner i is in the scroll loop of a long page.
InScrollLoop(i) == frame[i].page_long /\ pc[i] \in {"scroll", "read_sleep"}

\* C19: on a long page a link is searched or clicked only once the click time,
\* 20 to 30 s after the reading began, has been reached: while the clock
\* readings of the pass are below it no link was searched, and a scroll loop
\* that ends with them below it leaves the pass without any link search.
C19_SearchAfterClickTime ==
    /\ [](\A i \in DOMAIN pc :
            /\ (frame[i].page_long /\ Searching(i)) =>
                  /\ frame[i].now >= frame[i].link_click_time
                  /\ frame[i].link_click_time >= LinkClickMin
                  /\ frame[i].link_click_time <= LinkClickMax
            /\ (InScrollLoop(i) /\ ~frame[i].link_clicked
                  /\ frame[i].now < frame[i].link_click_time) =>
                  frame[i].searches = 0 /\ Clicks(i) = 0
            /\ (frame[i].page_long /\ pc[i] = "final_pos") =>
                  ~frame[i].link_clicked /\ Clicks(i) = 0)
    /\ [][\A i \in DOMAIN pc :
            /\ (frame[i].page_long /\ frame'[i].searches > frame[i].searches) =>
                  pc[i] = "find_links" /\ frame[i].now >= frame[i].link_click_time
            /\ (InScrollLoop(i) /\ frame[i].searches = 0 /\ pc'[i] = "final_pos") =>
                  frame'[i].searches = 0
            /\ (frame[i].page_long /\ pc[i] \in {"final_pos", "final_pause"}) =>
                  frame'[i].searches = frame[i].searches \/ frame'[i].results = <<>>]_vars

\* A link is about to be clicked on a long page whose click time, 30 s, was
\* reached by the clock.
C19_Witness ==
    \E i \in DOMAIN pc :
        /\ pc[i] = "click" /\ frame[i].page_long
        /\ frame[i].link_click_time = LinkClickMax /\ frame[i].now = LinkClickMax

\* ------------------------------------------------------------------ C20
\* C20: in the scroll loop of a long page the link search is performed at most
\* once per pass, whatever its result was (no matching link, a clicked link, a
\* link without a bounding box, or an exception).
C20_OneSearchPerPass ==
    \A i \in DOMAIN pc : frame[i].page_long => frame[i].searches <= 1

\* ------------------------------------------------------------------ C21
\* The calls of the link search and click, and those of read_new_page.
SearchCalls == {"find_links", "bounding_box", "click"}
NewPageCalls == {"np_dims", "np_scroll", "np_final_pos"}

\* The list holds a "New Page Reading" step with status PARTIAL.
HasPartial(results) ==
    \E k \in 1..Len(results) :
        results[k].step = "New Page Reading" /\ results[k].status = "PARTIAL"

\* C21: a failure during the link search or click, or during the reading of the
\* new page, never fails the pass. The exception is taken where it was raised
\* (read_new_page records a "New Page Reading" step with status PARTIAL): the
\* pass goes on with its next scroll session or its final pause, no counter
\* changes, no failed pass ever carries an exception of these calls, and a pass
\* that recorded PARTIAL and returns is counted as a success (unless the task is
\* cancelled while the context is closed).
C21_SearchFailureSwallowed ==
    /\ [](\A i \in DOMAIN pc :
            /\ pc[i] = "sleep_err" => frame[i].e.at \notin SearchCalls \cup NewPageCalls
            /\ frame[i].pending.kind = "error" =>
                  frame[i].pending.at \notin SearchCalls \cup NewPageCalls)
    /\ [][\A i \in DOMAIN pc :
            /\ (StepOf(i) /\ frame'[i].raised_by \in SearchCalls \cup NewPageCalls) =>
                  /\ pc'[i] \in {"scroll", "final_pause"}
                  /\ frame'[i].pending.kind = "none"
                  /\ states'[i].runs = states[i].runs
                  /\ states'[i].successes = states[i].successes
                  /\ states'[i].failures = states[i].failures
                  /\ states'[i].status = "running"
            /\ (StepOf(i) /\ frame'[i].raised_by \in NewPageCalls) =>
                  /\ Len(frame'[i].results) = Len(frame[i].results) + 1
                  /\ HasPartial(frame'[i].results) /\ ~HasPartial(frame[i].results)
                  /\ IsPrefix(PartialPrefix,
                              frame'[i].results[Len(frame'[i].results)].detail)
            /\ (pc[i] = "close" /\ pc'[i] # "close" /\ frame[i].pending.kind = "none"
                  /\ HasPartial(frame[i].results)) =>
                  \/ pc'[i] = "cancelled" /\ i \in cancel_req
                  \/ /\ pc'[i] = "sleep_ok" /\ states'[i].status = "idle"
                     /\ states'[i].runs = states[i].runs + 1
                     /\ states'[i].successes = states[i].successes + 1
                     /\ states'[i].failures = states[i].failures
                     /\ HasPartial(frame'[i].returned)]_vars

\* A pass in which the reading of the new page failed has been counted as a
\* success.
C21_Witness ==
    \E i \in DOMAIN pc :
        /\ pc[i] = "sleep_ok" /\ HasPartial(frame[i].returned)
        /\ states[i].successes = 1 /\ states[i].failures = 0

\* ------------------------------------------------------------------ C22
\* C22: both scroll loops are bounded and clamped: the tracked position stays
\* within [0, page_height], the loop body runs at most scroll_sessions times (at
\* most 20 on the first page, at most 12 on the new page), and no scroll is
\* issued once the tracked position has reached the target position.
C22_ScrollBoundedAndClamped ==
    /\ [](/\ loop.current_position >= 0
          /\ loop.current_position <= loop.page_height
          /\ loop.scrolls <= loop.scroll_sessions
          /\ loop.session <= loop.scroll_sessions
          /\ loop.scroll_sessions <= (IF loop.kind = "page" THEN 20 ELSE 12)
          /\ loop.at = "sleep" => loop.scrolls = loop.session + 1
          /\ loop.at = "head" => loop.scrolls = loop.session)
    /\ [][/\ loop'.scrolls > loop.scrolls =>
                /\ loop.current_position < loop.target_scroll_position
                /\ loop'.scrolls = loop.scrolls + 1
          /\ loop.current_position >= loop.target_scroll_position =>
                loop'.current_position = loop.current_position]_vars

\* The first page's loop has ended at the bottom of the page, which is the
\* target, after a jump that was cut at the page height.
C22_Witness ==
    /\ loop.kind = "page" /\ loop.at = "done"
    /\ loop.current_position = loop.page_height
    /\ loop.target_scroll_position = loop.page_height
    /\ loop.page_height = PageHeightUnit /\ loop.scrolls = 1

\* ------------------------------------------------------------------ C23
\* Runner i is past the reading period of a short page, in the same pass.
AfterShortRead(i) ==
    /\ ~frame[i].page_long
    /\ pc[i] \in {"bounding_box", "click", "click_wait", "np_pause", "np_dims",
                  "np_scroll", "np_read_sleep", "np_final_pos", "np_short_read",
                  "np_final_pause", "final_pause"}

\* C23: on a short page the pass waits one reading period of 20 to 30 s and
\* then searches the links exactly once. A matching link with a bounding box is
\* clicked and the new page is read (unless the click raises, which ends the
\* attempt); with no link or no box nothing is clicked and the pass goes on to
\* its final pause.
C23_ShortPageOneSearch ==
    /\ [](\A i \in DOMAIN pc :
            /\ pc[i] = "short_read" =>
                  /\ frame[i].delay_ms >= ShortReadMin * 1000
                  /\ frame[i].delay_ms <= ShortReadMax * 1000
                  /\ frame[i].searches = 0 /\ Clicks(i) = 0 /\ ~frame[i].page_long
            /\ (pc[i] = "find_links" /\ ~frame[i].page_long) =>
                  frame[i].searches = 0 /\ Clicks(i) = 0
            /\ AfterShortRead(i) => frame[i].searches = 1
            /\ (AfterShortRead(i) /\ pc[i] \in {"bounding_box", "click"}) => Clicks(i) = 0)
    /\ [][\A i \in DOMAIN pc :
            /\ (~frame[i].page_long /\ pc'[i] = "find_links" /\ pc[i] # "find_links") =>
                  pc[i] = "short_read"
            /\ (~frame[i].page_long /\ pc[i] = "click" /\ StepOf(i)) =>
                  \/ pc'[i] = "click_wait" /\ Clicks(i)' = 1
                  \/ pc'[i] = "final_pause" /\ Clicks(i)' = 0 /\ frame'[i].raised_by = "click"
                  \/ pc'[i] = "close" /\ frame'[i].pending.kind = "cancelled"
            /\ (~frame[i].page_long /\ pc[i] = "click_wait" /\ StepOf(i)) =>
                  \/ pc'[i] = "wfl_dom" /\ frame'[i].wfl_caller = "click"
                  \/ pc'[i] = "close" /\ frame'[i].pending.kind = "cancelled"
            /\ (~frame[i].page_long /\ pc[i] \in {"find_links", "bounding_box"}
                  /\ StepOf(i) /\ pc'[i] \notin {"bounding_box", "click"}) =>
                  \/ pc'[i] = "final_pause" /\ Clicks(i)' = 0
                  \/ pc'[i] = "close" /\ frame'[i].pending.kind = "cancelled"]_vars

\* On a short page the one search found a link with a box, the link was
\* clicked, the new page was read and the pass is in its final pause.
C23_Witness ==
    \E i \in DOMAIN pc :
        /\ ~frame[i].page_long /\ pc[i] = "final_pause"
        /\ frame[i].searches = 1 /\ Clicks(i) = 1
        /\ \E k \in 1..Len(frame[i].results) : frame[i].results[k].step = "New Page Reading"

\* ------------------------------------------------------------------ C24
\* The strategy that may follow a failed one on the same element: the order
\* element.click forced, element.click unforced, double click if requested,
\* mouse press when the element has a box, page.click, script click.
MayFollow(a, b, double) ==
    \/ a = "click_forced" /\ b = "click_unforced"
    \/ a = "click_unforced" /\ double /\ b = "dblclick"
    \/ a = "click_unforced" /\ ~double /\ b \in {"mouse", "page_click"}
    \/ a = "dblclick" /\ b \in {"mouse", "page_click"}
    \/ a = "mouse" /\ b = "page_click"
    \/ a = "page_click" /\ b = "script_click"

\* The strategies run on the element found last, in the fixed order, none but
\* the last completed.
TriedInOrder ==
    /\ hc.tried # <<>> => hc.tried[1].by = "click_forced"
    /\ \A k \in 1..(Len(hc.tried) - 1) :
          /\ ~hc.tried[k].ok
          /\ MayFollow(hc.tried[k].by, hc.tried[k + 1].by, hc.double)

StrategySucceeded == hc.tried # <<>> /\ hc.tried[Len(hc.tried)].ok

\* What hard_click raises when it gives up, as the claim states it.
LastErrorOrRuntimeError ==
    IF hc.last_err = <<>> THEN <<"RuntimeError">> ELSE hc.last_err

\* C24 as stated: hard_click returns normally only after a strategy on a
\* visible element completed without raising, the strategies being tried per
\* element in the fixed order; and a call that has ended (not by cancellation)
\* without a strategy succeeding before the deadline has raised the last
\* recorded error, or a RuntimeError when none was recorded.
C24_RaisesUnlessClickedBeforeDeadline ==
    /\ TriedInOrder
    /\ hc.outcome = "returned" => StrategySucceeded
    /\ (/\ hc.outcome \in {"returned", "raised"}
        /\ ~(StrategySucceeded /\ hc.now < hc.deadline))
       => /\ hc.outcome = "raised"
          /\ hc.raised = LastErrorOrRuntimeError

\* C24, amended: hard_click returns normally only after a strategy on a visible
\* element completed without raising, the strategies being tried per element in
\* the fixed order; the deadline is read only where a polling round begins:
\* when it has passed there and no strategy has succeeded, hard_click raises
\* the last recorded error (the error of the call that failed last), or a
\* RuntimeError when none was recorded, and it raises nowhere else unless its
\* task is cancelled; a round begun before the deadline is carried through, so
\* a strategy may still succeed, and hard_click return, after the deadline.
C24_HardClickOutcome ==
    /\ [](/\ TriedInOrder
          /\ hc.outcome = "returned" => StrategySucceeded
          /\ hc.outcome = "raised" =>
                /\ ~StrategySucceeded
                /\ hc.now >= hc.deadline
                /\ hc.raised = LastErrorOrRuntimeError)
    /\ [][/\ (hc.at = "while" /\ hc.now >= hc.deadline) =>
                hc'.outcome = "raised"
          /\ (hc.outcome = "running" /\ hc'.outcome = "raised") =>
                /\ hc.at = "while"
                /\ hc'.last_err = hc.last_err
          /\ (hc.outcome = "running" /\ hc'.outcome = "returned") =>
                /\ hc.at \in Strategies
                /\ hc'.last_err = hc.last_err
          /\ (Len(hc'.tried) > Len(hc.tried) /\ ~hc'.tried[Len(hc'.tried)].ok) =>
                hc'.last_err = <<hc.at>>
          /\ hc'.last_err # hc.last_err =>
                \/ Len(hc'.tried) > Len(hc.tried)
                \/ hc.at = "wait_for_selector" /\ hc'.at = "sleep_except"]_hc

\* hard_click returned after the deadline: the script click, the last strategy
\* of its element, completed in a round that began before the deadline, after
\* an error had been recorded.
C24_Witness ==
    /\ hc.outcome = "returned"
    /\ hc.now >= hc.deadline
    /\ hc.last_err # <<>>
    /\ hc.tried[Len(hc.tried)].by = "script_click"

\* ------------------------------------------------------------------ C25
\* In this step runner i leaves run_once into runner_task's counting code: the
\* pass is finished.
PassFinishes(i) ==
    /\ i \in DOMAIN pc /\ i \in DOMAIN pc'
    /\ pc[i] \notin {"sleep_ok", "sleep_err"}
    /\ pc'[i] \in {"sleep_ok", "sleep_err"}

\* C25: the counters are consistent in every state, so in every table the
\* dashboard builds: runs = successes + failures for every runner (and for the
\* totals row); no counter ever decreases; the step that finishes a pass adds
\* one to runs and one to exactly one of successes and failures, both in that
\* one step, and no other step changes a counter.
C25_CountersConsistent ==
    /\ [](/\ \A i \in DOMAIN states :
                states[i].runs = states[i].successes + states[i].failures
          /\ mpc = "dashboard" =>
                /\ \A k \in DOMAIN make_dashboard.rows :
                      LET row == make_dashboard.rows[k]
                      IN  row.runs = row.ok + row.fail
                /\ make_dashboard.totals.runs =
                      make_dashboard.totals.ok + make_dashboard.totals.fail)
    /\ [][\A i \in DOMAIN states \cap DOMAIN states' :
            LET s == states[i]
                t == states'[i]
            IN  /\ t.runs >= s.runs
                /\ t.successes >= s.successes
                /\ t.failures >= s.failures
                /\ PassFinishes(i) =>
                      /\ t.runs = s.runs + 1
                      /\ \/ t.successes = s.successes + 1 /\ t.failures = s.failures
                         \/ t.failures = s.failures + 1 /\ t.successes = s.successes
                /\ ~PassFinishes(i) =>
                      /\ t.runs = s.runs
                      /\ t.successes = s.successes
                      /\ t.failures = s.failures]_vars

\* The dashboard loop runs and a runner has finished one successful and one
\* failed pass.
C25_Witness ==
    /\ mpc = "dashboard"
    /\ \E i \in DOMAIN states :
          /\ states[i].successes = 1 /\ states[i].failures = 1
          /\ make_dashboard.rows[i].runs = 2

\* ------------------------------------------------------------------ C26
\* In this step run_once returns to runner i: the pass is counted a success.
PassSucceeds(i) ==
    /\ i \in DOMAIN pc /\ i \in DOMAIN pc'
    /\ pc[i] # "sleep_ok" /\ pc'[i] = "sleep_ok"

\* C26: the list runner_task receives from every successful pass begins with
\* the "Open URL" step and ends with "Reading Complete" followed by "Done", the
\* step appended in the finally block after "return results"; the steps the
\* pass had recorded before its teardown are the list without its last entry,
\* and the runner's last_detail is the detail of "Done", the elapsed time.
C26_ResultsEndWithDone ==
    [][\A i \in DOMAIN pc \cap DOMAIN pc' :
          PassSucceeds(i) =>
             LET results == frame'[i].returned
                 n == Len(results)
             IN  /\ n >= 3
                 /\ results[1].step = "Open URL"
                 /\ results[n - 1].step = "Reading Complete"
                 /\ results[n].step = "Done"
                 /\ \A k \in 1..(n - 1) : results[k].step # "Done"
                 /\ SubSeq(results, 1, n - 1) = frame[i].results
                 /\ states'[i].last_detail = results[n].detail
                 /\ states'[i].last_detail = ElapsedDetail]_vars

\* A pass that clicked a link has been counted a success and its list, with
\* "Done" last, is what the runner holds.
C26_Witness ==
    \E i \in DOMAIN pc :
        /\ pc[i] = "sleep_ok"
        /\ states[i].successes = 1
        /\ \E k \in DOMAIN frame[i].returned :
              frame[i].returned[k].step = "Clicked FinanceCity Link"
        /\ frame[i].returned[Len(frame[i].returned)].step = "Done"
        /\ states[i].last_detail = ElapsedDetail

\* ------------------------------------------------------------------ C27
\* In this step CancelledError is delivered to runner i inside run_once, before
\* its finally block began.
CancelledMidPass(i) ==
    /\ i \in cancel_req /\ i \notin cancel_req'
    /\ pc[i] \notin {"stagger", "sleep_ok", "sleep_err", "close", "cancelled"}

Counters(s) == <<s.runs, s.successes, s.failures>>

\* C27: a cancellation delivered in the middle of a pass is not counted. The
\* step that delivers it changes no counter and goes into the finally block of
\* run_once: close is called on the context the pass had opened (a pass
\* cancelled before it had one ends at once); when the close returns or raises
\* the task ends, again with no counter changed (it also ends, the close cut
\* short, when it is cancelled a second time); an ended task takes no further
\* step: it starts no pass and its InstanceState is never written again.
C27_CancelNotCounted ==
    [][\A i \in DOMAIN pc \cap DOMAIN pc' :
          /\ CancelledMidPass(i) =>
                /\ Counters(states'[i]) = Counters(states[i])
                /\ states'[i].status = "running"
                /\ IF frame[i].context = "open"
                   THEN /\ pc'[i] = "close"
                        /\ frame'[i].context = "closing"
                        /\ frame'[i].pending.kind = "cancelled"
                   ELSE /\ pc'[i] = "cancelled"
                        /\ frame[i].context = "None"
          /\ (/\ pc[i] = "close" /\ frame[i].pending.kind = "cancelled"
              /\ <<pc'[i], frame'[i]>> # <<pc[i], frame[i]>>) =>
                /\ pc'[i] = "cancelled"
                /\ Counters(states'[i]) = Counters(states[i])
                /\ \/ frame'[i].context \in {"closed", "close_failed"}
                   \/ frame'[i].context = "closing" /\ i \in cancel_req
          /\ pc[i] = "cancelled" =>
                /\ pc'[i] = "cancelled"
                /\ states'[i] = states[i]
                /\ frame'[i] = frame[i]]_vars

\* A task was cancelled inside its second pass, after a successful first one:
\* the context of the second pass is closed and the counters are those the
\* first pass left.
C27_Witness ==
    \E i \in DOMAIN pc :
        /\ pc[i] = "cancelled" /\ frame[i].context = "closed"
        /\ states[i].status = "running"
        /\ Counters(states[i]) = <<1, 1, 0>>
        /\ frame[i].passes = 2

\* ------------------------------------------------------------------ C28
\* main has left the dashboard loop and awaits the gather of its finally block.
WaitsInGather == mpc \in {"gather", "gather_cancelled", "gather_error"}

\* C28: however the dashboard loop stops (interrupt, cancellation of the main
\* task, an error raised while rendering), the final gather can complete and
\* main return: main never waits in the gather for a runner task on which
\* cancel() was not called.
C28_GatherCompletes ==
    WaitsInGather => \A i \in DOMAIN pc : CancelCalled(i)
====
